---- MODULE Spec2Model ----
(***************************************************************************)
(* Runtime document-assembly and caching engine of gqlb                    *)
(* (packages/core/src/runtime.ts): the selection node model, the field     *)
(* dispatcher, the fragment registry (FragmentMap) and the per-instance    *)
(* document cache (KeyedCache).                                            *)
(*                                                                         *)
(* Objects live in the variables operations / fragments; every Operation   *)
(* and FragmentDefinition owns a KeyedCache, split over cacheKeyFn (the    *)
(* constructor argument of the KeyedCache) and cache (its private slot).   *)
(* Builder callbacks are caller code: they are named by an identifier and  *)
(* Body gives the dispatcher calls the callback makes.                     *)
(***************************************************************************)
EXTENDS Integers, Sequences, FiniteSets, TLC

VARIABLES
  scenario,     \* the caller's program: which factory calls it makes
  operations,   \* what each query/mutation/subscription call gave: an Operation, or Throw
  fragments,    \* FragmentDefinition / FragmentDefinitionWithVariables instances
  cacheKeyFn,   \* per instance: KeyedCache.cacheKeyFn
  cache,        \* per instance: KeyedCache.cache
  key,          \* the array the caller-supplied cache-key function currently returns
  ret,          \* per instance: what the last document() call since the last dynamic()/static() returned
  held          \* per instance: a document of an earlier call that the caller has kept

vars == <<scenario, operations, fragments, cacheKeyFn, cache, key, ret, held>>

-----------------------------------------------------------------------------
(* Bounds *)

\* number of instances the caller keeps in a dynamic cache mode at a time
MaxDynamic == 1

\* depth of nested collectFragments calls the call stack holds
MaxDepth == 6

-----------------------------------------------------------------------------
(* JavaScript values handed to the dispatcher by builder callbacks *)

Undefined == [t |-> "undefined"]
Null == [t |-> "null"]
Str(s) == [t |-> "string", s |-> s]
Num(n) == [t |-> "number", n |-> n]
Bool(b) == [t |-> "boolean", b |-> b]
Arr(items) == [t |-> "array", items |-> items]
Obj(entries) == [t |-> "object", entries |-> entries]
Entry(n, v) == [name |-> n, value |-> v]
Marker(n) == [t |-> "variable", name |-> n]
EnumMarker(s) == [t |-> "enum", s |-> s]
Fn(b) == [t |-> "function", builder |-> b]
\* v.<name> inside a builder callback: a read of its second parameter
VarRef(n) == [t |-> "v", name |-> n]

\* typeof value
TypeOf(v) ==
  CASE v.t = "undefined" -> "undefined"
    [] v.t = "string" -> "string"
    [] v.t = "number" -> "number"
    [] v.t = "boolean" -> "boolean"
    [] v.t = "function" -> "function"
    [] OTHER -> "object"

\* dispatcher calls a builder callback makes, in the order of the array it returns
FieldCall(prop, a1, a2, a3) ==
  [c |-> "field", prop |-> prop, arg1 |-> a1, arg2 |-> a2, arg3 |-> a3, chained |-> ""]
\* b.prop(a1, a2, a3).alias(name)
FieldCallAlias(prop, a1, a2, a3, name) ==
  [c |-> "field", prop |-> prop, arg1 |-> a1, arg2 |-> a2, arg3 |-> a3, chained |-> name]
OnCall(tc, b) == [c |-> "__on", typeCondition |-> tc, builder |-> b]
FragmentCall(f) == [c |-> "__fragment", fragment |-> f, variables |-> Undefined]
\* b.__fragment(f, {name: v.other, ...})
FragmentCallWith(f, entries) == [c |-> "__fragment", fragment |-> f, variables |-> Obj(entries)]

Leaf(prop) == FieldCall(prop, Undefined, Undefined, Undefined)
IdArg(s) == Obj(<<Entry("id", Str(s))>>)

\* The builder callbacks of the callers (tests, docs and variations of them).
Body(b) ==
  CASE b = "id" -> <<Leaf("id")>>
    [] b = "name" -> <<Leaf("name")>>
    [] b = "idName" -> <<Leaf("id"), Leaf("name")>>
    [] b = "none" -> <<>>
    \* query.test.ts: b.viewer(b => [b.name()])
    [] b = "viewer" -> <<FieldCall("viewer", Fn("name"), Undefined, Undefined)>>
    \* interface.test.ts: b.node({id: "1"}, b => [b.id(), b.__on("User", b => [b.name()])])
    [] b = "onUser" -> <<Leaf("id"), OnCall("User", "name")>>
    [] b = "node" -> <<FieldCall("node", IdArg("1"), Fn("onUser"), Undefined)>>
    \* the three alias positions of the dispatcher, and the chained form
    [] b = "aliases" ->
         <<FieldCall("user", IdArg("1"), Fn("name"), Str("firstUser")),
           FieldCall("viewer", Fn("id"), Str("me"), Undefined),
           FieldCall("count", IdArg("2"), Str("total"), Undefined),
           FieldCallAlias("user", IdArg("3"), Fn("none"), Undefined, "other")>>
    \* spreads of fragment instances
    [] b = "f1" -> <<FragmentCall("f1")>>
    [] b = "f2" -> <<FragmentCall("f2")>>
    [] b = "f3" -> <<FragmentCall("f3")>>
    [] b = "idF2" -> <<Leaf("id"), FragmentCall("f2")>>
    [] b = "f1Twice" ->
         <<FieldCall("user", IdArg("1"), Fn("f1"), Undefined),
           FieldCall("viewer", Fn("f1"), Undefined, Undefined),
           FragmentCall("f1"), FragmentCall("f1")>>
    [] b = "f1f2" -> <<FragmentCall("f1"), FragmentCall("f2")>>
    [] b = "f2f1" -> <<FragmentCall("f2"), FragmentCall("f1")>>
    [] b = "f2f3" -> <<FieldCall("viewer", Fn("f2"), Undefined, Undefined), FragmentCall("f3")>>
    [] b = "bad" -> <<FieldCall("user", Obj(<<Entry("id", Undefined)>>), Fn("name"), Undefined)>>
    \* unsupported values below the top level of the arguments
    [] b = "badNested" ->
         <<Leaf("id"),
           FieldCall("users",
                     Obj(<<Entry("first", Num(2)),
                           Entry("filter", Obj(<<Entry("tags", Arr(<<Str("a"), Undefined>>))>>))>>),
                     Fn("name"), Undefined)>>
    [] b = "badFunction" ->
         <<FieldCall("viewer",
                     Fn("badInner"), Undefined, Undefined)>>
    [] b = "badInner" ->
         <<OnCall("User", "badLeaf")>>
    [] b = "badLeaf" ->
         <<FieldCall("posts", Obj(<<Entry("where", Arr(<<Obj(<<Entry("cb", Fn("name"))>>)>>))>>),
                     Undefined, Undefined)>>
    \* every supported kind of value, nested
    [] b = "supported" ->
         <<FieldCall("search",
                     Obj(<<Entry("q", Str("")), Entry("n", Num(0)), Entry("x", Null),
                           Entry("deep", Bool(FALSE)),
                           Entry("order", EnumMarker("ASC")),
                           Entry("in", Arr(<<Arr(<<>>), Obj(<<Entry("id", VarRef("id"))>>)>>))>>),
                     Fn("id"), Undefined)>>
    \* fields.test.ts: (b, v) => [b.fieldWithDefaultArgs({arg1: v.var1})]
    [] b = "nodeVar" ->
         <<FieldCall("node", Obj(<<Entry("id", VarRef("id")),
                                   Entry("in", Arr(<<VarRef("tags"), Str("id")>>))>>),
                     Fn("onUser"), Undefined)>>
    \* bodies of parameterized fragments
    [] b = "friendA" -> <<FieldCall("friend", Obj(<<Entry("id", VarRef("a"))>>), Fn("id"), Undefined)>>
    [] b = "selfA" -> <<Leaf("id"), FragmentCallWith("f1", <<Entry("a", VarRef("a"))>>)>>
    \* a callback that also assigns the array the caller's key function returns
    [] b = "touch" -> <<Leaf("id")>>
    \* spreads with a variables mapping
    [] b = "f1x" -> <<FragmentCallWith("f1", <<Entry("a", VarRef("x"))>>)>>
    [] b = "f1a" -> <<FragmentCallWith("f1", <<Entry("a", VarRef("a"))>>)>>
    \* a mapping with the fragment's own binding and one more key
    [] b = "f1ax" ->
         <<FragmentCallWith("f1", <<Entry("a", VarRef("a")), Entry("b", VarRef("x"))>>)>>
    [] b = "f1xf1x" ->
         <<FragmentCallWith("f1", <<Entry("a", VarRef("x"))>>),
           FieldCall("viewer", Fn("f1x"), Undefined, Undefined)>>
    [] b = "f1xf1y" ->
         <<FragmentCallWith("f1", <<Entry("a", VarRef("x"))>>),
           FragmentCallWith("f1", <<Entry("a", VarRef("y"))>>)>>
    \* two mappings onto the same operation variables, with a plain fragment between
    [] b = "f1xyf2f1yx" ->
         <<FragmentCallWith("f1", <<Entry("a", VarRef("x")), Entry("b", VarRef("y"))>>),
           FragmentCall("f2"),
           FragmentCallWith("f1", <<Entry("a", VarRef("y")), Entry("b", VarRef("x"))>>)>>
    [] b = "f1xxTwice" ->
         <<FragmentCallWith("f1", <<Entry("a", VarRef("x")), Entry("b", VarRef("x"))>>),
           FragmentCallWith("f1", <<Entry("a", VarRef("x")), Entry("b", VarRef("x"))>>)>>

\* v.<name>: the marker the variables parameter holds under the name
Lookup(v, n) ==
  IF \E i \in 1..Len(v) : v[i].name = n
  THEN Marker(v[CHOOSE i \in 1..Len(v) : v[i].name = n].value)
  ELSE Undefined

\* the value an expression of a builder callback has when the callback runs
\* with the variables parameter v
RECURSIVE Evaluate(_, _)
Evaluate(value, v) ==
  CASE value.t = "v" -> Lookup(v, value.name)
    [] value.t = "array" ->
         Arr([i \in 1..Len(value.items) |-> Evaluate(value.items[i], v)])
    [] value.t = "object" ->
         Obj([i \in 1..Len(value.entries) |->
                Entry(value.entries[i].name, Evaluate(value.entries[i].value, v))])
    [] OTHER -> value

-----------------------------------------------------------------------------
(* Value serializer *)

\* an Error thrown by the runtime, or by the code it calls
Throw == [kind |-> "Throw", error |-> "Error"]
\* new Error(`Unsupported value: ${value}`)
Unsupported(value) == [kind |-> "Throw", error |-> "UnsupportedValue", value |-> value]
IsThrow(n) == n.kind = "Throw"

RECURSIVE makeValueNode(_)
RECURSIVE makeValueNodes(_)
RECURSIVE makeObjectFields(_)

\* value.map((v) => makeValueNode(v))
makeValueNodes(items) ==
  IF Len(items) = 0 THEN [ok |-> TRUE, nodes |-> <<>>]
  ELSE LET h == makeValueNode(Head(items))
       IN IF IsThrow(h) THEN [ok |-> FALSE, nodes |-> <<>>, thrown |-> h]
          ELSE LET r == makeValueNodes(Tail(items))
               IN IF ~r.ok THEN r
                  ELSE [ok |-> TRUE, nodes |-> <<h>> \o r.nodes]

\* Object.entries(value).map(([name, value]) => ({...}))
makeObjectFields(entries) ==
  IF Len(entries) = 0 THEN [ok |-> TRUE, nodes |-> <<>>]
  ELSE LET h == makeValueNode(Head(entries).value)
       IN IF IsThrow(h) THEN [ok |-> FALSE, nodes |-> <<>>, thrown |-> h]
          ELSE LET r == makeObjectFields(Tail(entries))
               IN IF ~r.ok THEN r
                  ELSE [ok |-> TRUE,
                        nodes |-> <<[kind |-> "ObjectField",
                                     name |-> [kind |-> "Name", value |-> Head(entries).name],
                                     value |-> h]>> \o r.nodes]

\* makeValueNode that writes a variable-reference marker as a string literal
makeValueNode_MarkerAsLiteral(value) ==
  CASE value.t = "null" -> [kind |-> "NullValue"]
    [] value.t = "string" -> [kind |-> "StringValue", block |-> FALSE, value |-> value.s]
    [] value.t = "number" -> [kind |-> "IntValue", value |-> ToString(value.n)]
    [] value.t = "boolean" -> [kind |-> "BooleanValue", value |-> value.b]
    [] value.t = "array" ->
         LET r == makeValueNodes(value.items)
         IN IF r.ok THEN [kind |-> "ListValue", values |-> r.nodes] ELSE r.thrown
    [] value.t = "variable" ->
         [kind |-> "StringValue", block |-> FALSE, value |-> value.name]
    [] value.t = "enum" -> [kind |-> "EnumValue", value |-> value.s]
    [] value.t = "object" ->
         LET r == makeObjectFields(value.entries)
         IN IF r.ok THEN [kind |-> "ObjectValue", fields |-> r.nodes] ELSE r.thrown
    [] OTHER -> Unsupported(value)

\* makeValueNode that writes what it cannot represent as null
makeValueNode_NullForUnsupported(value) ==
  CASE value.t = "null" -> [kind |-> "NullValue"]
    [] value.t = "string" -> [kind |-> "StringValue", block |-> FALSE, value |-> value.s]
    [] value.t = "number" -> [kind |-> "IntValue", value |-> ToString(value.n)]
    [] value.t = "boolean" -> [kind |-> "BooleanValue", value |-> value.b]
    [] value.t = "array" ->
         LET r == makeValueNodes(value.items)
         IN IF r.ok THEN [kind |-> "ListValue", values |-> r.nodes] ELSE r.thrown
    [] value.t = "variable" ->
         [kind |-> "Variable", name |-> [kind |-> "Name", value |-> value.name]]
    [] value.t = "enum" -> [kind |-> "EnumValue", value |-> value.s]
    [] value.t = "object" ->
         LET r == makeObjectFields(value.entries)
         IN IF r.ok THEN [kind |-> "ObjectValue", fields |-> r.nodes] ELSE r.thrown
    [] OTHER -> [kind |-> "NullValue"]

makeValueNode(value) ==
  CASE value.t = "null" -> [kind |-> "NullValue"]
    [] value.t = "string" -> [kind |-> "StringValue", block |-> FALSE, value |-> value.s]
    [] value.t = "number" -> [kind |-> "IntValue", value |-> ToString(value.n)]
    [] value.t = "boolean" -> [kind |-> "BooleanValue", value |-> value.b]
    [] value.t = "array" ->
         LET r == makeValueNodes(value.items)
         IN IF r.ok THEN [kind |-> "ListValue", values |-> r.nodes] ELSE r.thrown
    [] value.t = "variable" ->
         [kind |-> "Variable", name |-> [kind |-> "Name", value |-> value.name]]
    [] value.t = "enum" -> [kind |-> "EnumValue", value |-> value.s]
    [] value.t = "object" ->
         LET r == makeObjectFields(value.entries)
         IN IF r.ok THEN [kind |-> "ObjectValue", fields |-> r.nodes] ELSE r.thrown
    [] OTHER -> Unsupported(value)

-----------------------------------------------------------------------------
(* Selection node model and the dispatcher *)

Truthy(v) ==
  CASE v.t = "undefined" -> FALSE
    [] v.t = "null" -> FALSE
    [] v.t = "string" -> v.s # ""
    [] v.t = "number" -> v.n # 0
    [] v.t = "boolean" -> v.b
    [] OTHER -> TRUE

\* Object.entries(args)
ObjectEntries(v) ==
  CASE v.t = "object" -> v.entries
    [] v.t = "array" -> [i \in 1..Len(v.items) |-> Entry(ToString(i - 1), v.items[i])]
    [] OTHER -> <<>>

RECURSIVE makeArgumentNodes(_)
makeArgumentNodes(entries) ==
  IF Len(entries) = 0 THEN [ok |-> TRUE, nodes |-> <<>>]
  ELSE LET h == makeValueNode(Head(entries).value)
       IN IF IsThrow(h) THEN [ok |-> FALSE, nodes |-> <<>>, thrown |-> h]
          ELSE LET r == makeArgumentNodes(Tail(entries))
               IN IF ~r.ok THEN r
                  ELSE [ok |-> TRUE,
                        nodes |-> <<[kind |-> "Argument",
                                     name |-> [kind |-> "Name", value |-> Head(entries).name],
                                     value |-> h]>> \o r.nodes]

\* new Field(name, args, selections); _alias is not set by the constructor
Field(name, args, hasSelections, selections) ==
  [kind |-> "Field", name |-> name, args |-> args,
   hasSelections |-> hasSelections, selections |-> selections, _alias |-> ""]

\* Field.alias(name)
FieldAlias(field, name) == [field EXCEPT !._alias = name]

InlineFragment(typeCondition, selections) ==
  [kind |-> "InlineFragment", typeCondition |-> typeCondition, selections |-> selections]

\* An instance of FragmentDefinition or FragmentDefinitionWithVariables: id
\* is the factory call its builder comes from, oid is empty for the instance
\* the factory returned and tells apart the instances setVariables creates;
\* variables maps each key to the name of the variable node it holds
FragmentInstance(id, oid, name, typeCondition, parameterized, variables, builder) ==
  [kind |-> "FragmentDefinition", id |-> id, oid |-> oid, name |-> name,
   typeCondition |-> typeCondition, parameterized |-> parameterized,
   variables |-> variables, builder |-> builder]

\* the instance the factory call f returned, used as a selection
FragmentSelection(f) ==
  FragmentInstance(f, <<>>, fragments[f].name, fragments[f].typeCondition,
                   fragments[f].parameterized, fragments[f].variables, fragments[f].builder)

\* object identity of an instance
Identity(instance) == <<instance.id>> \o instance.oid

\* variables[name]
EntryValue(entries, name) ==
  IF \E i \in 1..Len(entries) : entries[i].name = name
  THEN entries[CHOOSE i \in 1..Len(entries) :
                 /\ entries[i].name = name
                 /\ \A j \in (i + 1)..Len(entries) : entries[j].name # name].value
  ELSE Undefined

\* the test setVariables makes: every variable of this has a counterpart of
\* the same variable name under the same key
variablesAreEqual(this, variables) ==
  \A i \in 1..Len(this.variables) :
    LET otherVariable == EntryValue(variables, this.variables[i].name)
    IN IF ~Truthy(otherVariable) THEN FALSE
       ELSE otherVariable.name = this.variables[i].value

\* setVariables that stores the mapping in the instance it is called on
setVariables_InPlace(this, variables, oid) ==
  LET changed == [this EXCEPT !.variables =
                    [i \in 1..Len(variables) |->
                       Entry(variables[i].name, variables[i].value.name)]]
  IN [returned |-> changed, this |-> changed]

\* FragmentDefinitionWithVariables.setVariables(variables): returned is the
\* result, this the instance the method was called on as the call leaves it;
\* oid is the identity a newly constructed instance gets
setVariables(this, variables, oid) ==
  IF variablesAreEqual(this, variables) THEN [returned |-> this, this |-> this]
  ELSE [returned |->
          FragmentInstance(this.id, oid, this.name, this.typeCondition, TRUE,
                           [i \in 1..Len(variables) |->
                              Entry(variables[i].name, variables[i].value.name)],
                           this.builder),
        this |-> this]

RECURSIVE Invoke(_, _, _)
RECURSIVE InvokeCalls(_, _, _, _)

\* the alias the field builder resolves from its arguments
ResolvedAlias(arg1, arg2, arg3) ==
  IF TypeOf(arg1) = "object"
  THEN IF TypeOf(arg2) = "string" THEN arg2 ELSE arg3
  ELSE IF TypeOf(arg1) = "function" /\ TypeOf(arg2) = "string" THEN arg2 ELSE Undefined

\* a field builder that takes a builder only as its first argument
ResolvedBuilder_FirstOnly(arg1, arg2, arg3) ==
  IF TypeOf(arg1) = "function" THEN arg1 ELSE Undefined

\* the nested builder the field builder resolves from its arguments
ResolvedBuilder(arg1, arg2, arg3) ==
  IF TypeOf(arg1) = "object"
  THEN IF TypeOf(arg2) = "string" THEN Undefined ELSE arg2
  ELSE IF TypeOf(arg1) = "function" THEN arg1 ELSE Undefined

\* the arguments the field builder resolves
ResolvedArgs(arg1) == IF TypeOf(arg1) = "object" THEN arg1 ELSE Undefined

\* what a dispatcher call gives: a selection, or the error it threw; rebinds
\* lists the setVariables calls made on the way, each with the instance it
\* was called on as the call left it
Ok(selection, rebinds) == [ok |-> TRUE, selection |-> selection, rebinds |-> rebinds]
Failed(thrown, rebinds) == [ok |-> FALSE, thrown |-> thrown, rebinds |-> rebinds]

\* the argument nodes of a field: if (args) { for (const [key, value] of
\* Object.entries(args)) argNodes.push(...) }
ArgumentNodes(args) ==
  IF Truthy(args) THEN makeArgumentNodes(ObjectEntries(args))
  ELSE [ok |-> TRUE, nodes |-> <<>>]

\* new Field(prop, alias, argNodes, () => builder(makeBuilderObject())), r
\* being what the nested builder gives
FieldOver(prop, nodes, r) ==
  IF ~r.ok THEN Failed(r.thrown, r.rebinds)
  ELSE Ok(Field(prop, nodes, TRUE, r.selections), r.rebinds)

\* the field builder once its arguments are resolved
ResolvedField(prop, argumentNodes, builder, v, path) ==
  IF ~argumentNodes.ok THEN Failed(argumentNodes.thrown, <<>>)
  ELSE IF ~Truthy(builder) THEN Ok(Field(prop, argumentNodes.nodes, FALSE, <<>>), <<>>)
  ELSE IF TypeOf(builder) # "function" THEN Failed(Throw, <<>>)
  ELSE FieldOver(prop, argumentNodes.nodes, Invoke(builder.builder, v, path))

\* b.<prop>(arg1, arg2, arg3); v is the variables parameter the enclosing
\* builder callback closes over, path the position of the call in the build
FieldBuilder(prop, arg1, arg2, arg3, v, path) ==
  ResolvedField(prop, ArgumentNodes(ResolvedArgs(arg1)),
                ResolvedBuilder(arg1, arg2, arg3), v, path)

\* new InlineFragment(typeCondition, () => builder(makeBuilderObject())), r
\* being what the builder gives
InlineFragmentOver(typeCondition, r) ==
  IF ~r.ok THEN Failed(r.thrown, r.rebinds)
  ELSE Ok(InlineFragment(typeCondition, r.selections), r.rebinds)

\* b.__on(typeCondition, builder)
OnBuilder(typeCondition, builder, v, path) ==
  InlineFragmentOver(typeCondition, Invoke(builder, v, path))

\* fragment.setVariables(variables) as __fragment uses it: r is the pair
\* setVariables gives; the call is recorded with the instance it was made
\* on before (on) and after (this) the call, its argument and its result
Rebound(fragment, variables, r) ==
  Ok(r.returned,
     <<[on |-> fragment, this |-> r.this, variables |-> variables, returned |-> r.returned]>>)

\* b.__fragment(fragment, variables)
FragmentBuilder(fragment, variables, path) ==
  IF fragment.parameterized /\ Truthy(variables)
  THEN Rebound(fragment, ObjectEntries(variables),
               setVariables(fragment, ObjectEntries(variables), path))
  ELSE Ok(fragment, <<>>)

\* .alias(chained) on the field f that a field builder call gave
Chained(f, chained) ==
  IF ~f.ok \/ chained = "" THEN f
  ELSE Ok(FieldAlias(f.selection, chained), f.rebinds)

\* one entry of the array a builder callback returns
Dispatch(call, v, path) ==
  CASE call.c = "field" ->
         Chained(FieldBuilder(call.prop, Evaluate(call.arg1, v), Evaluate(call.arg2, v),
                              Evaluate(call.arg3, v), v, path),
                 call.chained)
    [] call.c = "__on" -> OnBuilder(call.typeCondition, call.builder, v, path)
    [] call.c = "__fragment" ->
         FragmentBuilder(FragmentSelection(call.fragment), Evaluate(call.variables, v), path)

\* the array a builder callback returns, from its first entry h and the
\* entries r after it; the first entry that throws ends the callback
Entries(h, r) ==
  IF ~r.ok THEN [r EXCEPT !.rebinds = h.rebinds \o @]
  ELSE [ok |-> TRUE, selections |-> <<h.selection>> \o r.selections,
        rebinds |-> h.rebinds \o r.rebinds]

\* the entries of a builder callback from the i-th on, h being the i-th
EntriesFrom(h, calls, v, path, i) ==
  IF ~h.ok
  THEN [ok |-> FALSE, selections |-> <<>>, thrown |-> h.thrown, rebinds |-> h.rebinds]
  ELSE Entries(h, InvokeCalls(calls, v, path, i + 1))

InvokeCalls(calls, v, path, i) ==
  IF i > Len(calls) THEN [ok |-> TRUE, selections |-> <<>>, rebinds |-> <<>>]
  ELSE EntriesFrom(Dispatch(calls[i], v, Append(path, ToString(i))), calls, v, path, i)

\* builder(makeBuilderObject(), v): the selections a builder callback returns
Invoke(b, v, path) == InvokeCalls(Body(b), v, path, 1)

-----------------------------------------------------------------------------
(* AST production *)

NameNode(value) == [kind |-> "Name", value |-> value]

TypenameNode ==
  [kind |-> "Field", arguments |-> <<>>, directives |-> <<>>, name |-> NameNode("__typename")]

\* FragmentDefinition.spread()
spread(name) == [kind |-> "FragmentSpread", name |-> NameNode(name)]

RECURSIVE createSelectionSet(_)
RECURSIVE SelectionDocument(_)

\* Field.document()
FieldDocument(field) ==
  IF field._alias # ""
  THEN IF field.hasSelections
       THEN [kind |-> "Field", name |-> NameNode(field.name), directives |-> <<>>,
             alias |-> NameNode(field._alias), arguments |-> field.args,
             selectionSet |-> createSelectionSet(field.selections)]
       ELSE [kind |-> "Field", name |-> NameNode(field.name), directives |-> <<>>,
             alias |-> NameNode(field._alias), arguments |-> field.args]
  ELSE IF field.hasSelections
       THEN [kind |-> "Field", name |-> NameNode(field.name), directives |-> <<>>,
             arguments |-> field.args,
             selectionSet |-> createSelectionSet(field.selections)]
       ELSE [kind |-> "Field", name |-> NameNode(field.name), directives |-> <<>>,
             arguments |-> field.args]

\* InlineFragment.document()
InlineFragmentDocument(inline) ==
  [kind |-> "InlineFragment", directives |-> <<>>,
   typeCondition |-> [kind |-> "NamedType", name |-> NameNode(inline.typeCondition)],
   selectionSet |-> createSelectionSet(inline.selections)]

\* the node createSelectionSet emits for one selection
SelectionDocument(s) ==
  CASE s.kind = "FragmentDefinition" -> spread(s.name)
    [] s.kind = "Field" -> FieldDocument(s)
    [] s.kind = "InlineFragment" -> InlineFragmentDocument(s)

\* createSelectionSet that pushes __typename after the selections
createSelectionSet_TypenameLast(selections) ==
  [kind |-> "SelectionSet",
   selections |-> [i \in 1..Len(selections) |-> SelectionDocument(selections[i])] \o
                  <<TypenameNode>>]

createSelectionSet(selections) ==
  [kind |-> "SelectionSet",
   selections |-> <<TypenameNode>> \o
                  [i \in 1..Len(selections) |-> SelectionDocument(selections[i])]]

-----------------------------------------------------------------------------
(* Entry-point factories *)

\* parseType(type, {noLocation: true}) over the tokens of the type string:
\* a name or a bracketed type, then an optional "!"
RECURSIVE parseTypeReference(_)
parseTypeReference(tokens) ==
  LET inner ==
        IF Len(tokens) = 0 THEN [ok |-> FALSE, rest |-> <<>>]
        ELSE IF Head(tokens) = "["
        THEN LET e == parseTypeReference(Tail(tokens))
             IN IF e.ok /\ Len(e.rest) > 0 /\ Head(e.rest) = "]"
                THEN [ok |-> TRUE, rest |-> Tail(e.rest),
                      node |-> [kind |-> "ListType", type |-> e.node]]
                ELSE [ok |-> FALSE, rest |-> <<>>]
        ELSE IF Head(tokens) \in {"]", "!"} THEN [ok |-> FALSE, rest |-> <<>>]
        ELSE [ok |-> TRUE, rest |-> Tail(tokens),
              node |-> [kind |-> "NamedType", name |-> NameNode(Head(tokens))]]
  IN IF inner.ok /\ Len(inner.rest) > 0 /\ Head(inner.rest) = "!"
     THEN [ok |-> TRUE, rest |-> Tail(inner.rest),
           node |-> [kind |-> "NonNullType", type |-> inner.node]]
     ELSE inner

parseType(tokens) ==
  LET r == parseTypeReference(tokens)
  IN IF r.ok /\ Len(r.rest) = 0 THEN r.node ELSE Throw

\* the variable definitions makeOperationBuilder pushes, one per entry
VariableDefinitions(decls) ==
  [i \in 1..Len(decls) |->
     [kind |-> "VariableDefinition", directives |-> <<>>,
      variable |-> [kind |-> "Variable", name |-> NameNode(decls[i].name)],
      type |-> parseType(decls[i].value)]]

\* new Operation(name, type, variableDefinitions, thunk): variables and
\* builder are what the thunk closes over, invoked tells whether the thunk
\* has been called
Operation(name, type, variableDefinitions, variables, builder) ==
  [kind |-> "Operation", name |-> name, type |-> type,
   variableDefinitions |-> variableDefinitions,
   variables |-> variables, builder |-> builder, invoked |-> FALSE]

\* a factory that calls the builder before it returns
builderOperation_Eager(type, name, decls, builder) ==
  IF \E i \in 1..Len(decls) : IsThrow(parseType(decls[i].value)) THEN Throw
  ELSE [Operation(name, type, VariableDefinitions(decls),
                  [i \in 1..Len(decls) |-> Entry(decls[i].name, decls[i].name)],
                  builder) EXCEPT !.invoked = TRUE]

\* builder.query / mutation / subscription (name, decls, builder); decls = <<>>
\* also stands for the two-argument form. A type string parseType rejects
\* makes the call throw.
builderOperation(type, name, decls, builder) ==
  IF \E i \in 1..Len(decls) : IsThrow(parseType(decls[i].value)) THEN Throw
  ELSE Operation(name, type, VariableDefinitions(decls),
                 [i \in 1..Len(decls) |-> Entry(decls[i].name, decls[i].name)],
                 builder)

\* new FragmentDefinition(...) / new FragmentDefinitionWithVariables(...)
Fragment(name, typeCondition, parameterized, variables, builder) ==
  [name |-> name, typeCondition |-> typeCondition, parameterized |-> parameterized,
   variables |-> variables, builder |-> builder, invoked |-> FALSE]

\* builder.fragment(name, typeCondition, arg3, arg4): arg3 is the builder, or
\* the declared variables with arg4 the builder; only the keys of the
\* declared variables are read
builderFragment(name, typeCondition, arg3, arg4) ==
  IF TypeOf(arg3) = "object"
  THEN Fragment(name, typeCondition, TRUE,
                [i \in 1..Len(ObjectEntries(arg3)) |->
                   Entry(ObjectEntries(arg3)[i].name, ObjectEntries(arg3)[i].name)],
                arg4.builder)
  ELSE Fragment(name, typeCondition, FALSE, <<>>, arg3.builder)

-----------------------------------------------------------------------------
(* KeyedCache *)

\* values the caller puts into a cache key; "objA" and "objB" are two
\* distinct objects of the same shape
KeyValues == {"0", "objA", "objB", "NaN"}

\* JSON.stringify of one cache-key element
JSONOfKeyValue(v) ==
  CASE v \in {"objA", "objB"} -> "{}"
    [] v \in {"NaN", "undefined"} -> "null"
    [] OTHER -> v

\* a deep comparison of a and b in place of ===
StrictEquals_Deep(a, b) == JSONOfKeyValue(a) = JSONOfKeyValue(b)

\* a === b
StrictEquals(a, b) == a = b /\ a # "NaN"

NoKey == [defined |-> FALSE, values |-> <<>>]
KeyOf(values) == [defined |-> TRUE, values |-> values]

NoDocument == [ref |-> 0, definitions |-> <<>>]
EmptyCache == [present |-> FALSE, value |-> NoDocument, cacheKey |-> NoKey]

\* this.cacheKeyFn?.()
CallCacheKeyFn(fn) ==
  CASE fn = "undefined" -> NoKey
    [] fn = "default" -> KeyOf(<<>>)
    [] fn = "caller" -> KeyOf(key)

\* this.cache.cacheKey[i] (0-based in the source)
StoredKeyAt(slot, i) ==
  IF i <= Len(slot.cacheKey.values) THEN slot.cacheKey.values[i] ELSE "undefined"

\* KeyedCache.get() without the branch for the static mode
KeyedCacheGet_NoStaticHit(fn, slot) ==
  LET cacheKey == CallCacheKeyFn(fn)
  IN IF ~slot.present THEN [hit |-> FALSE, value |-> NoDocument, cacheKey |-> cacheKey]
     ELSE IF /\ cacheKey.defined
             /\ Len(cacheKey.values) # 0
             /\ slot.cacheKey.defined
             /\ \A i \in 1..Len(cacheKey.values) :
                  StrictEquals(cacheKey.values[i], StoredKeyAt(slot, i))
     THEN [hit |-> TRUE, value |-> slot.value, cacheKey |-> cacheKey]
     ELSE [hit |-> FALSE, value |-> NoDocument, cacheKey |-> cacheKey]

\* KeyedCache.get() without the test for an empty key
KeyedCacheGet_EmptyKeyHits(fn, slot) ==
  LET cacheKey == CallCacheKeyFn(fn)
  IN IF ~slot.present THEN [hit |-> FALSE, value |-> NoDocument, cacheKey |-> cacheKey]
     ELSE IF ~cacheKey.defined /\ ~slot.cacheKey.defined
     THEN [hit |-> TRUE, value |-> slot.value, cacheKey |-> cacheKey]
     ELSE IF /\ cacheKey.defined
             /\ slot.cacheKey.defined
             /\ \A i \in 1..Len(cacheKey.values) :
                  StrictEquals(cacheKey.values[i], StoredKeyAt(slot, i))
     THEN [hit |-> TRUE, value |-> slot.value, cacheKey |-> cacheKey]
     ELSE [hit |-> FALSE, value |-> NoDocument, cacheKey |-> cacheKey]

\* KeyedCache.get(): hit tells whether a value is returned
KeyedCacheGet(fn, slot) ==
  LET cacheKey == CallCacheKeyFn(fn)
  IN IF ~slot.present THEN [hit |-> FALSE, value |-> NoDocument, cacheKey |-> cacheKey]
     ELSE IF ~cacheKey.defined /\ ~slot.cacheKey.defined
     THEN [hit |-> TRUE, value |-> slot.value, cacheKey |-> cacheKey]
     ELSE IF /\ cacheKey.defined
             /\ Len(cacheKey.values) # 0
             /\ slot.cacheKey.defined
             /\ \A i \in 1..Len(cacheKey.values) :
                  StrictEquals(cacheKey.values[i], StoredKeyAt(slot, i))
     THEN [hit |-> TRUE, value |-> slot.value, cacheKey |-> cacheKey]
     ELSE [hit |-> FALSE, value |-> NoDocument, cacheKey |-> cacheKey]

\* KeyedCache.set(value)
KeyedCacheSet(fn, value) ==
  [present |-> TRUE, value |-> value, cacheKey |-> CallCacheKeyFn(fn)]

-----------------------------------------------------------------------------
(* FragmentMap *)

\* JSON.stringify(fragment): the enumerable, non-function, defined own
\* properties of the instance: cache (the KeyedCache with its slot), name,
\* typeCondition and, of a FragmentDefinitionWithVariables, variables (its
\* keys, each with an empty object: the marker is a symbol property); the
\* selections thunk and the builder are functions and are left out. An
\* instance made by setVariables has a cache of its own, which is empty.
JSONStringify(f) ==
  LET slot == IF f.oid = <<>> THEN cache[f.id] ELSE EmptyCache
  IN [name |-> f.name,
      typeCondition |-> f.typeCondition,
      hasVariables |-> f.parameterized,
      variables |-> [i \in 1..Len(f.variables) |-> f.variables[i].name],
      cache |-> [present |-> slot.present,
                 value |-> slot.value.definitions,
                 hasCacheKey |-> slot.cacheKey.defined,
                 cacheKey |-> [i \in 1..Len(slot.cacheKey.values) |->
                                 JSONOfKeyValue(slot.cacheKey.values[i])]]]

NoFragment == Undefined

\* new FragmentMap(); fragments holds the identities of the registered
\* instances. The rest is the record of the build: clashes the set() calls
\* that found another instance under the name, error and thrown the error
\* that ended the build, invoked the instances whose builder was called (in
\* order), rebinds the setVariables calls, accepted the instances in
\* this.fragments in the order they were added
EmptyFragmentMap ==
  [entries |-> <<>>, fragments |-> {}, error |-> "", thrown |-> Throw, clashes |-> <<>>,
   invoked |-> <<>>, rebinds |-> <<>>, accepted |-> <<>>]

\* Map.get(name)
FragmentMapGet(map, name) ==
  IF \E i \in 1..Len(map.entries) : map.entries[i].name = name
  THEN map.entries[CHOOSE i \in 1..Len(map.entries) : map.entries[i].name = name].fragment
  ELSE NoFragment

\* a list in place of the map: every registration adds an entry
MapSet_Append(entries, name, fragment) ==
  Append(entries, [name |-> name, fragment |-> fragment])

\* a map that puts a new key in front
MapSet_Prepend(entries, name, fragment) ==
  IF \E i \in 1..Len(entries) : entries[i].name = name
  THEN [i \in 1..Len(entries) |->
          IF entries[i].name = name THEN [name |-> name, fragment |-> fragment]
          ELSE entries[i]]
  ELSE <<[name |-> name, fragment |-> fragment]>> \o entries

\* a map whose existing key keeps the instance it was first set to
MapSet_KeepsFirst(entries, name, fragment) ==
  IF \E i \in 1..Len(entries) : entries[i].name = name
  THEN entries
  ELSE Append(entries, [name |-> name, fragment |-> fragment])

\* Map.set(name, fragment): an existing key keeps its position
MapSet(entries, name, fragment) ==
  IF \E i \in 1..Len(entries) : entries[i].name = name
  THEN [i \in 1..Len(entries) |->
          IF entries[i].name = name THEN [name |-> name, fragment |-> fragment]
          ELSE entries[i]]
  ELSE Append(entries, [name |-> name, fragment |-> fragment])

\* a comparison of the names and the type conditions alone
StructureDiffers_NameAndType(existing, fragment) ==
  existing.name # fragment.name \/ existing.typeCondition # fragment.typeCondition

\* the comparison FragmentMap.set makes between two instances that are not
\* both parameterized
StructureDiffers(existing, fragment) == JSONStringify(existing) # JSONStringify(fragment)

\* Object.values(fragment.variables).map((v) => v[variableSymbol].name.value)
VariableNames(f) == [i \in 1..Len(f.variables) |-> f.variables[i].value]

\* the loop of FragmentMap.set over the variable names of the existing
\* instance, with the set of those of the incoming one: TRUE when it throws
RECURSIVE VariablesDiffer(_, _)
VariablesDiffer(existingNames, variables) ==
  IF Len(existingNames) = 0 THEN Cardinality(variables) > 0
  ELSE IF Head(existingNames) \notin variables THEN TRUE
  ELSE VariablesDiffer(Tail(existingNames), variables \ {Head(existingNames)})

\* FragmentMap.set(name, fragment)
FragmentMapSet(map, name, fragment) ==
  LET existing == FragmentMapGet(map, name)
      clashes == IF existing = NoFragment THEN map.clashes
                 ELSE Append(map.clashes, [existing |-> existing, incoming |-> fragment])
      registered == [map EXCEPT !.fragments = @ \cup {Identity(fragment)},
                                !.entries = MapSet(@, fragment.name, fragment),
                                !.clashes = clashes,
                                !.accepted = Append(@, fragment)]
  IN IF existing # NoFragment /\ existing.name = fragment.name
        /\ fragment.parameterized /\ existing.parameterized
     THEN IF VariablesDiffer(VariableNames(existing),
                             {VariableNames(fragment)[i] : i \in 1..Len(fragment.variables)})
          THEN [map EXCEPT !.error = "FragmentVariablesConflict", !.clashes = clashes]
          ELSE registered
     ELSE IF existing # NoFragment /\ StructureDiffers(existing, fragment)
     THEN [map EXCEPT !.error = "FragmentConflict", !.clashes = clashes,
                      !.invoked = @ \o <<Identity(existing), Identity(fragment)>>]
     ELSE registered

\* FragmentMap.has(fragment)
FragmentMapHas(map, fragment) == Identity(fragment) \in map.fragments

-----------------------------------------------------------------------------
(* collectFragments *)

RECURSIVE collectFragments(_, _, _)
RECURSIVE collectAll(_, _, _)

\* for (const selection of selections) selection.collectFragments(map)
collectAll(selections, map, depth) ==
  IF Len(selections) = 0 \/ map.error # "" THEN map
  ELSE collectAll(Tail(selections), collectFragments(Head(selections), map, depth), depth)

\* Field / InlineFragment / FragmentDefinition / FragmentDefinitionWithVariables
\* .collectFragments(map); depth is the number of collectFragments calls on
\* the call stack, and a call the stack has no room for throws RangeError
collectFragments(s, map, depth) ==
  IF depth > MaxDepth THEN [map EXCEPT !.error = "RangeError"]
  ELSE
  CASE s.kind = "Field" ->
         IF s.hasSelections THEN collectAll(s.selections, map, depth + 1) ELSE map
    [] s.kind = "InlineFragment" -> collectAll(s.selections, map, depth + 1)
    [] s.kind = "FragmentDefinition" ->
         IF FragmentMapHas(map, s) THEN map
         ELSE LET m == FragmentMapSet(map, s.name, s)
              IN IF m.error # "" THEN m
                 ELSE LET r == Invoke(s.builder, s.variables, Append(Identity(s), "c"))
                          called == [m EXCEPT !.invoked = Append(@, Identity(s)),
                                              !.rebinds = @ \o r.rebinds]
                      IN IF ~r.ok
                         THEN [called EXCEPT !.error = r.thrown.error, !.thrown = r.thrown]
                         ELSE collectAll(r.selections, called, depth + 1)

\* FragmentDefinition.definition() / FragmentDefinitionWithVariables.definition()
FragmentDefinitionNode(f) ==
  LET r == Invoke(f.builder, f.variables, Append(Identity(f), "d"))
  IN IF ~r.ok THEN r.thrown
     ELSE [kind |-> "FragmentDefinition",
           name |-> NameNode(f.name),
           typeCondition |-> [kind |-> "NamedType", name |-> NameNode(f.typeCondition)],
           selectionSet |-> createSelectionSet(r.selections)]

\* Array.from(fragmentMap.values()).map((f) => f.definition())
FragmentDefinitions(map) ==
  [i \in 1..Len(map.entries) |-> FragmentDefinitionNode(map.entries[i].fragment)]

\* the builders the definition() calls invoke, in order
DefinitionsInvoked(map) ==
  [i \in 1..Len(map.entries) |-> Identity(map.entries[i].fragment)]

\* the setVariables calls the definition() calls make, in order
RECURSIVE DefinitionsRebinds(_, _)
DefinitionsRebinds(map, i) ==
  IF i > Len(map.entries) THEN <<>>
  ELSE LET f == map.entries[i].fragment
       IN Invoke(f.builder, f.variables, Append(Identity(f), "d")).rebinds \o
          DefinitionsRebinds(map, i + 1)

\* the operation definition node of Operation.document()
OperationDefinitionNode(o, selections) ==
  [kind |-> "OperationDefinition", directives |-> <<>>,
   name |-> NameNode(operations[o].name),
   operation |-> operations[o].type,
   variableDefinitions |-> operations[o].variableDefinitions,
   selectionSet |-> createSelectionSet(selections)]

\* a build that ended with an error
BuildFailed(map) ==
  [error |-> map.error, thrown |-> map.thrown, definitions |-> <<>>, map |-> map,
   invoked |-> map.invoked, rebinds |-> map.rebinds]

\* Operation.document() that lists the operation before the fragments
OperationBuild_OperationFirst(o) ==
  LET r == Invoke(operations[o].builder, operations[o].variables, <<o, "c">>)
      started == [EmptyFragmentMap EXCEPT !.invoked = <<<<o>>>>, !.rebinds = r.rebinds]
  IN IF ~r.ok THEN BuildFailed([started EXCEPT !.error = r.thrown.error, !.thrown = r.thrown])
     ELSE LET map == collectAll(r.selections, started, 1)
              again == Invoke(operations[o].builder, operations[o].variables, <<o, "d">>)
          IN IF map.error # "" THEN BuildFailed(map)
             ELSE [error |-> "", thrown |-> Throw, map |-> map,
                   definitions |-> <<OperationDefinitionNode(o, again.selections)>> \o
                                   FragmentDefinitions(map),
                   invoked |-> map.invoked \o DefinitionsInvoked(map) \o <<<<o>>>>,
                   rebinds |-> map.rebinds \o DefinitionsRebinds(map, 1) \o again.rebinds]

\* the build of Operation.document() after a cache miss: this.selections()
\* is called for the collection and again for the operation's selection set
OperationBuild(o) ==
  LET r == Invoke(operations[o].builder, operations[o].variables, <<o, "c">>)
      started == [EmptyFragmentMap EXCEPT !.invoked = <<<<o>>>>, !.rebinds = r.rebinds]
  IN IF ~r.ok THEN BuildFailed([started EXCEPT !.error = r.thrown.error, !.thrown = r.thrown])
     ELSE LET map == collectAll(r.selections, started, 1)
              again == Invoke(operations[o].builder, operations[o].variables, <<o, "d">>)
          IN IF map.error # "" THEN BuildFailed(map)
             ELSE [error |-> "", thrown |-> Throw, map |-> map,
                   definitions |-> FragmentDefinitions(map) \o
                                   <<OperationDefinitionNode(o, again.selections)>>,
                   invoked |-> map.invoked \o DefinitionsInvoked(map) \o <<<<o>>>>,
                   rebinds |-> map.rebinds \o DefinitionsRebinds(map, 1) \o again.rebinds]

\* the build of FragmentDefinition.document() and of
\* FragmentDefinitionWithVariables.document() after a cache miss
FragmentBuild(f) ==
  LET map == collectFragments(FragmentSelection(f), EmptyFragmentMap, 1)
  IN IF map.error # "" THEN BuildFailed(map)
     ELSE [error |-> "", thrown |-> Throw, map |-> map,
           definitions |-> FragmentDefinitions(map),
           invoked |-> map.invoked \o DefinitionsInvoked(map),
           rebinds |-> map.rebinds \o DefinitionsRebinds(map, 1)]

-----------------------------------------------------------------------------
(* The caller's programs: which operations and fragments are constructed *)

\* one call of builder.query / mutation / subscription
OperationCall(type, name, decls, builder) ==
  [type |-> type, name |-> name, decls |-> decls, builder |-> builder]

\* one call of builder.fragment
FragmentFactoryCall(name, typeCondition, arg3, arg4) ==
  [name |-> name, typeCondition |-> typeCondition, arg3 |-> arg3, arg4 |-> arg4]

\* builder.fragment(name, typeCondition, builder)
PlainFragment(name, typeCondition, builder) ==
  FragmentFactoryCall(name, typeCondition, Fn(builder), Undefined)

\* type strings, as the tokens the parser reads
ID == <<"ID">>
NonNullID == <<"ID", "!">>

NoFragments == [f \in {} |-> PlainFragment("", "", "none")]
NoOperations == [o \in {} |-> OperationCall("query", "", <<>>, "none")]

Scenarios ==
  {"basic", "variables", "aliases", "unsupported", "dedupe", "order", "reorder", "deep",
   "conflict", "typeCondition", "nested",
   "rebind", "rebindOther", "rebindTwice", "rebindSame", "rebindExtra", "replace", "touch", "mixed", "mixedReverse",
   "rebindCycle", "malformed", "unsupportedNested", "unsupportedFunction", "supported"}

\* the factory calls for operations the program makes
OperationCalls(s) ==
  CASE s = "basic" -> [o \in {"q1"} |-> OperationCall("query", "BasicQuery", <<>>, "viewer")]
    [] s = "variables" ->
         [o \in {"q1"} |->
            OperationCall("mutation", "Update",
                          <<Entry("id", <<"String", "!">>),
                            Entry("tags", <<"[", "ID", "!", "]">>)>>, "nodeVar")]
    [] s = "aliases" -> [o \in {"q1"} |-> OperationCall("query", "AliasedFields", <<>>, "aliases")]
    [] s = "unsupported" -> [o \in {"q1"} |-> OperationCall("subscription", "S", <<>>, "bad")]
    [] s = "unsupportedNested" -> [o \in {"q1"} |-> OperationCall("query", "Q", <<>>, "badNested")]
    [] s = "unsupportedFunction" ->
         [o \in {"q1"} |-> OperationCall("query", "Q", <<>>, "badFunction")]
    [] s = "supported" ->
         [o \in {"q1"} |-> OperationCall("query", "Q", <<Entry("id", NonNullID)>>, "supported")]
    [] s = "dedupe" -> [o \in {"q1"} |-> OperationCall("query", "Q", <<>>, "f1Twice")]
    [] s = "order" -> [o \in {"q1"} |-> OperationCall("query", "Q", <<>>, "f1f2")]
    [] s = "reorder" -> [o \in {"q1"} |-> OperationCall("query", "Q", <<>>, "f2f1")]
    [] s = "rebind" ->
         [o \in {"q1"} |-> OperationCall("query", "Q", <<Entry("x", NonNullID)>>, "f1xf1x")]
    [] s = "rebindOther" ->
         [o \in {"q1"} |->
            OperationCall("query", "Q", <<Entry("x", NonNullID), Entry("y", ID)>>, "f1xf1y")]
    [] s = "rebindTwice" ->
         [o \in {"q1"} |-> OperationCall("query", "Q", <<Entry("x", NonNullID)>>, "f1xxTwice")]
    [] s = "rebindSame" ->
         [o \in {"q1"} |-> OperationCall("query", "Q", <<Entry("a", NonNullID)>>, "f1a")]
    [] s = "rebindExtra" ->
         [o \in {"q1"} |->
            OperationCall("query", "Q", <<Entry("a", NonNullID), Entry("x", ID)>>, "f1ax")]
    [] s = "replace" ->
         [o \in {"q1"} |->
            OperationCall("query", "Q", <<Entry("x", NonNullID), Entry("y", NonNullID)>>,
                          "f1xyf2f1yx")]
    [] s = "touch" -> [o \in {"q1"} |-> OperationCall("query", "Q", <<>>, "touch")]
    [] s = "rebindCycle" ->
         [o \in {"q1"} |-> OperationCall("query", "Q", <<Entry("x", NonNullID)>>, "f1x")]
    [] s = "malformed" ->
         [o \in {"q1"} |-> OperationCall("query", "Q", <<Entry("id", <<"ID", "!", "!">>)>>, "id")]
    [] OTHER -> NoOperations

\* the factory calls for fragments the program makes
FragmentCalls(s) ==
  CASE s = "dedupe" -> [f \in {"f1"} |-> PlainFragment("A", "User", "idName")]
    [] s \in {"order", "reorder"} ->
         [f \in {"f1", "f2"} |->
            IF f = "f1" THEN PlainFragment("C", "User", "idF2")
            ELSE PlainFragment("A", "User", "f1")]
    [] s = "deep" ->
         [f \in {"f1", "f2", "f3"} |->
            CASE f = "f1" -> PlainFragment("C", "User", "f2f3")
              [] f = "f2" -> PlainFragment("A", "User", "f3")
              [] f = "f3" -> PlainFragment("B", "User", "name")]
    [] s = "conflict" ->
         [f \in {"f1", "f2"} |->
            IF f = "f1" THEN PlainFragment("A", "User", "idF2")
            ELSE PlainFragment("A", "User", "name")]
    [] s = "typeCondition" ->
         [f \in {"f1", "f2"} |->
            IF f = "f1" THEN PlainFragment("A", "User", "idF2")
            ELSE PlainFragment("A", "Organization", "idF2")]
    [] s = "nested" ->
         [f \in {"f1", "f2"} |->
            IF f = "f1" THEN PlainFragment("A", "User", "idF2")
            ELSE PlainFragment("A", "User", "idF2")]
    [] s \in {"rebind", "rebindOther", "rebindSame", "rebindExtra"} ->
         [f \in {"f1"} |->
            FragmentFactoryCall("F", "User", Obj(<<Entry("a", NonNullID)>>), Fn("friendA"))]
    [] s = "rebindTwice" ->
         [f \in {"f1"} |->
            FragmentFactoryCall("F", "User", Obj(<<Entry("a", NonNullID), Entry("b", ID)>>),
                                Fn("friendA"))]
    [] s = "replace" ->
         [f \in {"f1", "f2"} |->
            IF f = "f1"
            THEN FragmentFactoryCall("F", "User",
                                     Obj(<<Entry("a", NonNullID), Entry("b", NonNullID)>>),
                                     Fn("friendA"))
            ELSE PlainFragment("B", "User", "name")]
    \* a plain and a parameterized fragment with one name: the plain one
    \* spreads the parameterized one, and the other way round
    [] s = "mixed" ->
         [f \in {"f1", "f2"} |->
            IF f = "f1" THEN PlainFragment("A", "User", "idF2")
            ELSE FragmentFactoryCall("A", "User", Obj(<<Entry("a", NonNullID)>>), Fn("friendA"))]
    [] s = "mixedReverse" ->
         [f \in {"f1", "f2"} |->
            IF f = "f1"
            THEN FragmentFactoryCall("A", "User", Obj(<<Entry("a", NonNullID)>>), Fn("idF2"))
            ELSE PlainFragment("A", "User", "idF2")]
    [] s = "rebindCycle" ->
         [f \in {"f1"} |->
            FragmentFactoryCall("F", "User", Obj(<<Entry("a", NonNullID)>>), Fn("selfA"))]
    [] s = "malformed" ->
         [f \in {"f1"} |->
            FragmentFactoryCall("F", "User", Obj(<<Entry("a", <<"[", "ID">>)>>), Fn("friendA"))]
    [] OTHER -> NoFragments

\* what the calls for operations give
ScenarioOperations(s) ==
  [o \in DOMAIN OperationCalls(s) |->
     builderOperation(OperationCalls(s)[o].type, OperationCalls(s)[o].name,
                      OperationCalls(s)[o].decls, OperationCalls(s)[o].builder)]

\* what the calls for fragments give
ScenarioFragments(s) ==
  [f \in DOMAIN FragmentCalls(s) |->
     builderFragment(FragmentCalls(s)[f].name, FragmentCalls(s)[f].typeCondition,
                     FragmentCalls(s)[f].arg3, FragmentCalls(s)[f].arg4)]

-----------------------------------------------------------------------------
(* State machine *)

\* the factory calls that returned an Operation
Operations == {o \in DOMAIN operations : ~IsThrow(operations[o])}
Fragments == DOMAIN fragments
Instances == Operations \cup Fragments

\* arrays the caller's cache-key function may return
Keys == {<<>>, <<"objA", "0">>} \cup {<<v>> : v \in KeyValues \ {"0"}}

\* A document object is identified by the instance that built it and ref:
\* the references to documents of x that the caller or x's cache still holds
LiveRefs(x) == {cache[x].value.ref, ret[x].ref, held[x].ref}

\* a document object taken from a pool of two: distinct from the cached one only
FreshRef_PoolOfTwo(x) == IF cache[x].value.ref = 1 THEN 2 ELSE 1

\* the identity of a newly allocated document object: distinct from every live one
FreshRef(x) == CHOOSE n \in 1..(Cardinality(LiveRefs(x)) + 1) :
                 n \notin LiveRefs(x) /\ \A m \in 1..(n - 1) : m \in LiveRefs(x)

\* how often the build called the root builder of x
Invocations(build, x) ==
  Cardinality({i \in 1..Len(build.invoked) : build.invoked[i] = <<x>>})

\* what a document() call gave the caller: called is FALSE until the first
\* call, threw / ref are the outcome, hit tells whether the cache answered,
\* cacheKey is the key the lookup computed, error and thrown the error of the build, clashes the
\* registrations of the build that met another instance under the same name,
\* invocations the calls of the instance's own builder, rebinds the
\* setVariables calls of the build
NoResult ==
  [called |-> FALSE, threw |-> FALSE, ref |-> 0, hit |-> FALSE,
   cacheKey |-> NoKey, error |-> "", thrown |-> Throw, clashes |-> <<>>,
   invocations |-> 0, rebinds |-> <<>>,
   accepted |-> <<>>]
Returned(g, doc, clashes) ==
  [called |-> TRUE, threw |-> FALSE, ref |-> doc.ref,
   hit |-> g.hit, cacheKey |-> g.cacheKey, error |-> "", thrown |-> Throw,
   clashes |-> clashes, invocations |-> 0, rebinds |-> <<>>,
   accepted |-> <<>>]
Thrown(g, build) ==
  [called |-> TRUE, threw |-> TRUE, ref |-> 0,
   hit |-> FALSE, cacheKey |-> g.cacheKey, error |-> build.error,
   thrown |-> build.thrown, clashes |-> build.map.clashes, invocations |-> 0,
   rebinds |-> build.rebinds, accepted |-> <<>>]

\* a kept document: its reference and the key its document() call computed
NotHeld == [ref |-> 0, cacheKey |-> NoKey]

\* r is a document() call that returned a document
IsDocument(r) == r.called /\ ~r.threw

Init ==
  /\ scenario \in Scenarios
  /\ operations = ScenarioOperations(scenario)
  /\ fragments = ScenarioFragments(scenario)
  /\ cacheKeyFn = [x \in Instances |-> "undefined"]
  /\ cache = [x \in Instances |-> EmptyCache]
  /\ ret = [x \in Instances |-> NoResult]
  /\ key = <<>>
  /\ held = [x \in Instances |-> NotHeld]

\* the builder callbacks the build called
InvokedBuilders(build) == {build.invoked[i][1] : i \in 1..Len(build.invoked)}

\* the instance f after the setVariables calls made on it
AfterRebinds(f, rebinds) ==
  LET on == {i \in 1..Len(rebinds) : rebinds[i].this.id = f /\ rebinds[i].this.oid = <<>>}
  IN IF on = {} THEN FragmentSelection(f)
     ELSE rebinds[CHOOSE i \in on : \A j \in on : j <= i].this

\* the instances after a build
FragmentsAfter(build) ==
  [f \in Fragments |->
     LET after == AfterRebinds(f, build.rebinds)
     IN [name |-> after.name, typeCondition |-> after.typeCondition,
         parameterized |-> after.parameterized, variables |-> after.variables,
         builder |-> after.builder,
         invoked |-> fragments[f].invoked \/ f \in InvokedBuilders(build)]]

OperationsAfter(build) ==
  [o \in DOMAIN operations |->
     IF o \in InvokedBuilders(build) THEN [operations[o] EXCEPT !.invoked = TRUE]
     ELSE operations[o]]

\* what a builder callback assigns to the array the caller's key function returns
SideEffect(b) == IF b = "touch" THEN KeyOf(<<"objA", "0">>) ELSE NoKey

\* the array the caller's key function returns once the callbacks of a build have run
KeyAfter(build) ==
  LET effects == {SideEffect(operations[o].builder) : o \in InvokedBuilders(build) \cap Operations}
      assigned == {e \in effects : e.defined}
  IN IF assigned = {} THEN key ELSE (CHOOSE e \in assigned : TRUE).values

\* document() that caches what a failed build had produced before it threw
Document_CachesFailedBuild(x, build) ==
  LET g == KeyedCacheGet(cacheKeyFn[x], cache[x])
      invocations == Invocations(build, x)
      doc == [ref |-> FreshRef(x), definitions |-> build.definitions]
  IN IF g.hit
     THEN /\ ret' = [ret EXCEPT ![x] = Returned(g, g.value, <<>>)]
          /\ UNCHANGED <<cache, operations, fragments, key>>
     ELSE /\ key' = KeyAfter(build)
          /\ operations' = OperationsAfter(build)
          /\ fragments' = FragmentsAfter(build)
          /\ \E fn \in {cacheKeyFn[x]}, value \in {doc} :
                          cache' = [cache EXCEPT ![x] = KeyedCacheSet(fn, value)']
          /\ IF build.error # ""
             THEN ret' = [ret EXCEPT ![x] = [Thrown(g, build) EXCEPT
                                               !.invocations = invocations]]
             ELSE ret' = [ret EXCEPT ![x] =
                            [Returned(g, doc, build.map.clashes) EXCEPT
                               !.invocations = invocations,
                               !.rebinds = build.rebinds,
                                     !.accepted = build.map.accepted]]

\* document() that also stores the document in the cache of every fragment
\* whose definition it holds
Document_CachesSpreadFragments(x, build) ==
  LET g == KeyedCacheGet(cacheKeyFn[x], cache[x])
      invocations == Invocations(build, x)
  IN IF g.hit
     THEN /\ ret' = [ret EXCEPT ![x] = Returned(g, g.value, <<>>)]
          /\ UNCHANGED <<cache, operations, fragments, key>>
     ELSE /\ key' = KeyAfter(build)
          /\ operations' = OperationsAfter(build)
          /\ fragments' = FragmentsAfter(build)
          /\ IF build.error # ""
             THEN /\ ret' = [ret EXCEPT ![x] = [Thrown(g, build) EXCEPT
                                                  !.invocations = invocations]]
                  /\ UNCHANGED cache
             ELSE LET doc == [ref |-> FreshRef(x), definitions |-> build.definitions]
                  IN /\ cache' = [y \in Instances |->
                                    IF y = x \/ y \in InvokedBuilders(build)
                                    THEN KeyedCacheSet(cacheKeyFn[y], doc)
                                    ELSE cache[y]]
                     /\ ret' = [ret EXCEPT ![x] =
                                  [Returned(g, doc, build.map.clashes) EXCEPT
                                     !.invocations = invocations,
                                     !.rebinds = build.rebinds,
                                     !.accepted = build.map.accepted]]

\* the common part of the document() methods
Document(x, build) ==
  LET g == KeyedCacheGet(cacheKeyFn[x], cache[x])
      invocations == Invocations(build, x)
  IN IF g.hit
     THEN /\ ret' = [ret EXCEPT ![x] = Returned(g, g.value, <<>>)]
          /\ UNCHANGED <<cache, operations, fragments, key>>
     ELSE /\ key' = KeyAfter(build)
          /\ operations' = OperationsAfter(build)
          /\ fragments' = FragmentsAfter(build)
          /\ IF build.error # ""
             THEN /\ ret' = [ret EXCEPT ![x] = [Thrown(g, build) EXCEPT
                                                  !.invocations = invocations]]
                  /\ UNCHANGED cache
             ELSE LET doc == [ref |-> FreshRef(x), definitions |-> build.definitions]
                  IN /\ \E fn \in {cacheKeyFn[x]}, value \in {doc} :
                          cache' = [cache EXCEPT ![x] = KeyedCacheSet(fn, value)']
                     /\ ret' = [ret EXCEPT ![x] =
                                  [Returned(g, doc, build.map.clashes) EXCEPT
                                     !.invocations = invocations,
                                     !.rebinds = build.rebinds,
                                     !.accepted = build.map.accepted]]

\* Operation.document()
OperationDocument(o) ==
  /\ Document(o, OperationBuild(o))
  /\ UNCHANGED <<scenario, cacheKeyFn, held>>

\* FragmentDefinition.document() / FragmentDefinitionWithVariables.document()
FragmentDocument(f) ==
  /\ Document(f, FragmentBuild(f))
  /\ UNCHANGED <<scenario, cacheKeyFn, held>>

\* dynamic() / static() that keep the KeyedCache when the mode stays the same
ReplaceCache_KeepsSameMode(x, fn) ==
  /\ cacheKeyFn' = [cacheKeyFn EXCEPT ![x] = fn]
  /\ cache' = [cache EXCEPT ![x] = IF cacheKeyFn[x] = fn THEN @ ELSE EmptyCache]
  /\ ret' = [ret EXCEPT ![x] = NoResult]
  /\ UNCHANGED <<scenario, operations, fragments, key, held>>

\* this.cache = new KeyedCache(fn)
ReplaceCache(x, fn) ==
  /\ cacheKeyFn' = [cacheKeyFn EXCEPT ![x] = fn]
  /\ cache' = [cache EXCEPT ![x] = EmptyCache]
  /\ ret' = [ret EXCEPT ![x] = NoResult]
  /\ UNCHANGED <<scenario, operations, fragments, key, held>>

\* the caller's programme keeps at most MaxDynamic instances dynamic
MayBeDynamic(x) ==
  Cardinality({y \in Instances \ {x} : cacheKeyFn[y] # "undefined"}) < MaxDynamic

\* Operation.dynamic(cacheKey?): withKeyFn tells whether the caller passed a function
OperationDynamic(o, withKeyFn) ==
  /\ MayBeDynamic(o)
  /\ ReplaceCache(o, IF withKeyFn THEN "caller" ELSE "default")

\* Operation.static()
OperationStatic(o) == ReplaceCache(o, "undefined")

\* FragmentDefinition.dynamic(cacheKey?)
FragmentDynamic(f, withKeyFn) ==
  /\ MayBeDynamic(f)
  /\ ReplaceCache(f, IF withKeyFn THEN "caller" ELSE "default")

\* FragmentDefinition.static()
FragmentStatic(f) == ReplaceCache(f, "undefined")

\* the caller reassigns the variables its cache-key function reads (a
\* reassignment while no instance holds the function commutes with the
\* dynamic() call that installs it, so it is taken after that call)
SetKey(k) ==
  /\ \E x \in Instances : cacheKeyFn[x] = "caller"
  /\ k # key
  /\ key' = k
  /\ UNCHANGED <<scenario, operations, fragments, cacheKeyFn, cache, ret, held>>

Next ==
  \/ \E o \in Operations : OperationDocument(o)
  \/ \E f \in Fragments : FragmentDocument(f)
  \/ \E o \in Operations, w \in BOOLEAN : OperationDynamic(o, w)
  \/ \E o \in Operations : OperationStatic(o)
  \/ \E f \in Fragments, w \in BOOLEAN : FragmentDynamic(f, w)
  \/ \E f \in Fragments : FragmentStatic(f)
  \/ \E k \in Keys : SetKey(k)

Spec == Init /\ [][Next]_vars

\* The caller keeps the document its last document() call on x returned,
\* to compare it with the documents of later calls; it keeps one document
\* per instance.
Hold(x) ==
  /\ IsDocument(ret[x])
  /\ held[x] = NotHeld
  /\ held' = [held EXCEPT ![x] = [ref |-> ret[x].ref, cacheKey |-> ret[x].cacheKey]]
  /\ UNCHANGED <<scenario, operations, fragments, cacheKeyFn, cache, key, ret>>

\* the programs of callers that keep documents
HeldScenarios == {"basic", "dedupe"}

InitHeld == Init /\ scenario \in HeldScenarios

\* the arrays dynamic(() => [x]) returns
HeldKeys == {<<v>> : v \in KeyValues \ {"0"}}

NextHeld ==
  \/ \E o \in Operations : OperationDocument(o)
  \/ \E f \in Fragments : FragmentDocument(f)
  \/ \E o \in Operations, w \in BOOLEAN : OperationDynamic(o, w)
  \/ \E o \in Operations : OperationStatic(o)
  \/ \E f \in Fragments, w \in BOOLEAN : FragmentDynamic(f, w)
  \/ \E f \in Fragments : FragmentStatic(f)
  \/ \E k \in HeldKeys : SetKey(k)
  \/ \E x \in Instances : Hold(x)

\* callers that compare a document with one they got more than one call ago
SpecHeld == InitHeld /\ [][NextHeld]_vars

-----------------------------------------------------------------------------
(* Properties *)

\* C1: in static mode (dynamic() never called, or static() called since) two
\* document() calls with no dynamic()/static() call between them return the
\* same reference, and the second call is answered by the cache
C1_StaticDocumentIsCached ==
  [][\A x \in Instances :
       (cacheKeyFn[x] = "undefined" /\ IsDocument(ret[x]) /\ ret'[x].called)
         => /\ IsDocument(ret'[x])
            /\ ret'[x].ref = ret[x].ref
            /\ (ret'[x] # ret[x] => ret'[x].hit)]_vars

\* a second document() call in static mode was answered by the cache
C1_Witness ==
  \E x \in Instances : cacheKeyFn[x] = "undefined" /\ IsDocument(ret[x]) /\ ret[x].hit

\* C2: after dynamic() without a key function, or with one that returns [],
\* no document() call is answered by the cache, and a call that follows
\* another returns a different reference
C2_EmptyKeyAlwaysRebuilds ==
  /\ [](\A x \in Instances :
          (ret[x].called /\ ret[x].cacheKey = KeyOf(<<>>)) => ~ret[x].hit)
  /\ [][\A x \in Instances :
          (/\ IsDocument(ret[x]) /\ IsDocument(ret'[x])
           /\ ret'[x].cacheKey = KeyOf(<<>>)
           /\ ret'[x] # ret[x])
            => ret'[x].ref # ret[x].ref]_vars

\* a key function that returns [] has seen a second build
C2_Witness ==
  \E x \in Instances :
    /\ cacheKeyFn[x] = "caller" /\ IsDocument(ret[x]) /\ ret[x].ref = 2
    /\ ret[x].cacheKey = KeyOf(<<>>) /\ cache[x].cacheKey = KeyOf(<<>>)

\* the callback of x assigns what the caller's key function returns
ChangesKey(x) == x \in Operations /\ SideEffect(operations[x].builder).defined

\* C3: after dynamic(() => [x]), of two consecutive document() calls that
\* return a document, the second returns the same reference when its x is
\* === to the x of the first, and a new reference when x was reassigned to a
\* different value in between (x is assigned by the caller between the
\* calls, not by the build)
C3_KeyedCache ==
  [][\A x \in Instances :
       (/\ cacheKeyFn[x] = "caller" /\ ~ChangesKey(x)
        /\ IsDocument(ret[x]) /\ IsDocument(ret'[x])
        /\ Len(ret[x].cacheKey.values) = 1 /\ Len(ret'[x].cacheKey.values) = 1)
         => /\ StrictEquals(ret[x].cacheKey.values[1], ret'[x].cacheKey.values[1])
                 => ret'[x].ref = ret[x].ref
            /\ ret[x].cacheKey.values[1] # ret'[x].cacheKey.values[1]
                 => ret'[x].ref # ret[x].ref]_vars

\* x was reassigned from one object to another of the same shape, the
\* document was rebuilt, and the call after that was answered by the cache
C3_Witness ==
  \E x \in Instances :
    /\ cacheKeyFn[x] = "caller" /\ IsDocument(ret[x])
    /\ ret[x].hit /\ ret[x].ref = 2 /\ ret[x].cacheKey = KeyOf(<<"objB">>)

\* the selection set a fragment instance produces
SelectionSetOf(f) ==
  LET r == Invoke(f.builder, f.variables, Append(Identity(f), "p"))
  IN IF r.ok THEN createSelectionSet(r.selections) ELSE Throw

\* C4: a build in which a second, distinct fragment instance is registered
\* under a name that is already registered, with a selection set that differs
\* from the registered one, raises Fragment Conflict and returns no document
C4_DifferentSelectionsConflict ==
  \A x \in Instances :
    ret[x].called =>
      \A i \in 1..Len(ret[x].clashes) :
        SelectionSetOf(ret[x].clashes[i].existing) # SelectionSetOf(ret[x].clashes[i].incoming)
          => ret[x].threw /\ ret[x].error = "FragmentConflict"

\* C5: a build never raises Fragment Conflict for a distinct instance with
\* the name, the type condition and the selection set of the registered one,
\* whatever was called on either instance before
C5_SameStructureNeverConflicts ==
  \A x \in Instances :
    (ret[x].threw /\ ret[x].error = "FragmentConflict") =>
      LET c == ret[x].clashes[Len(ret[x].clashes)]
      IN ~(/\ c.existing.name = c.incoming.name
           /\ c.existing.typeCondition = c.incoming.typeCondition
           /\ SelectionSetOf(c.existing) = SelectionSetOf(c.incoming))

RECURSIVE SpreadNames(_)
\* the fragment names spread anywhere inside a selection-set node
SpreadNames(set) ==
  UNION {LET n == set.selections[i]
         IN CASE n.kind = "FragmentSpread" -> {n.name.value}
              [] n.kind = "InlineFragment" -> SpreadNames(n.selectionSet)
              [] n.kind = "Field" ->
                   IF "selectionSet" \in DOMAIN n THEN SpreadNames(n.selectionSet) ELSE {}
         : i \in 1..Len(set.selections)}

DefinitionsNamed(defs, n) ==
  {i \in 1..Len(defs) : defs[i].kind = "FragmentDefinition" /\ defs[i].name.value = n}

\* C6: in every produced document no two fragment-definition nodes share a
\* name, and every fragment name spread in the document, however often, has
\* exactly one fragment-definition node
C6_OneDefinitionPerName ==
  \A x \in Instances :
    cache[x].present =>
      LET defs == cache[x].value.definitions
      IN /\ \A i, j \in 1..Len(defs) :
              (/\ i # j
               /\ defs[i].kind = "FragmentDefinition"
               /\ defs[j].kind = "FragmentDefinition")
                => defs[i].name.value # defs[j].name.value
         /\ \A i \in 1..Len(defs) :
              \A n \in SpreadNames(defs[i].selectionSet) :
                Cardinality(DefinitionsNamed(defs, n)) = 1

\* a document of an operation that spreads one instance four times
C6_Witness ==
  \E x \in Operations :
    /\ cache[x].present /\ operations[x].builder = "f1Twice"
    /\ Len(cache[x].value.definitions) = 2

\* C7: a string in the alias position of field(args, alias), field(builder,
\* alias) or field(args, builder, alias) is the alias of the produced node
C7_AliasArgumentBecomesAlias ==
  \A x \in Operations :
    cache[x].present =>
      LET calls == Body(operations[x].builder)
          defs == cache[x].value.definitions
          nodes == defs[Len(defs)].selectionSet.selections
      IN \A i \in 1..Len(calls) :
           (/\ calls[i].c = "field"
            /\ TypeOf(ResolvedAlias(calls[i].arg1, calls[i].arg2, calls[i].arg3)) = "string")
             => /\ "alias" \in DOMAIN nodes[i + 1]
                /\ nodes[i + 1].alias.value =
                     ResolvedAlias(calls[i].arg1, calls[i].arg2, calls[i].arg3).s

RECURSIVE SelectionSetMatches(_, _)
\* the node is the one a selection has to produce
NodeMatches(s, node) ==
  CASE s.kind = "FragmentDefinition" ->
         /\ node.kind = "FragmentSpread"
         /\ DOMAIN node = {"kind", "name"}
         /\ node.name.value = s.name
    [] s.kind = "InlineFragment" ->
         /\ node.kind = "InlineFragment"
         /\ node.typeCondition.name.value = s.typeCondition
         /\ SelectionSetMatches(s.selections, node.selectionSet)
    [] s.kind = "Field" ->
         /\ node.kind = "Field"
         /\ node.name.value = s.name
         /\ ("selectionSet" \in DOMAIN node) <=> s.hasSelections
         /\ s.hasSelections => SelectionSetMatches(s.selections, node.selectionSet)

\* __typename first, then one node per selection, in order
SelectionSetMatches(selections, set) ==
  /\ set.kind = "SelectionSet"
  /\ Len(set.selections) = Len(selections) + 1
  /\ set.selections[1].kind = "Field"
  /\ set.selections[1].name.value = "__typename"
  /\ "selectionSet" \notin DOMAIN set.selections[1]
  /\ \A i \in 1..Len(selections) : NodeMatches(selections[i], set.selections[i + 1])

RECURSIVE FirstCollected(_, _)
RECURSIVE FirstCollectedAll(_, _)
\* depth-first, pre-order walk: names in the order in which they are first met
FirstCollectedAll(selections, acc) ==
  IF Len(selections) = 0 THEN acc
  ELSE FirstCollectedAll(Tail(selections), FirstCollected(Head(selections), acc))

FirstCollected(s, acc) ==
  CASE s.kind = "Field" -> FirstCollectedAll(s.selections, acc)
    [] s.kind = "InlineFragment" -> FirstCollectedAll(s.selections, acc)
    [] s.kind = "FragmentDefinition" ->
         IF Identity(s) \in acc.visited THEN acc
         ELSE LET n == s.name
              IN FirstCollectedAll(
                   Invoke(s.builder, s.variables, Append(Identity(s), "p")).selections,
                   [visited |-> acc.visited \cup {Identity(s)},
                    names |-> IF \E i \in 1..Len(acc.names) : acc.names[i] = n
                              THEN acc.names ELSE Append(acc.names, n)])

RootSelections(x) ==
  IF x \in Operations
  THEN Invoke(operations[x].builder, operations[x].variables, <<x, "p">>).selections
  ELSE <<FragmentSelection(x)>>

FragmentDefinitionNames(defs) ==
  LET idx == {i \in 1..Len(defs) : defs[i].kind = "FragmentDefinition"}
  IN [i \in 1..Cardinality(idx) |-> defs[i].name.value]

\* C9: the fragment-definition nodes of a produced document are in the order
\* in which a depth-first, pre-order walk of the root's selections first
\* meets their names
C9_FirstCollectionOrder ==
  \A x \in Instances :
    cache[x].present =>
      /\ \A i, j \in 1..Len(cache[x].value.definitions) :
           (cache[x].value.definitions[i].kind = "FragmentDefinition" /\ j < i)
             => cache[x].value.definitions[j].kind = "FragmentDefinition"
      /\ FragmentDefinitionNames(cache[x].value.definitions) =
           FirstCollectedAll(RootSelections(x), [visited |-> {}, names |-> <<>>]).names

\* a document whose three fragment definitions are not in name order
C9_Witness ==
  \E x \in Instances :
    /\ cache[x].present
    /\ FragmentDefinitionNames(cache[x].value.definitions) = <<"C", "A", "B">>

\* C10: a document of an operation is zero or more fragment-definition nodes
\* followed by one operation-definition node, the last definition, with the
\* operation's name, kind and variable definitions
C10_OperationDefinitionLast ==
  \A x \in Operations :
    cache[x].present =>
      LET defs == cache[x].value.definitions
          n == Len(defs)
      IN /\ n >= 1
         /\ defs[n].kind = "OperationDefinition"
         /\ defs[n].name.value = operations[x].name
         /\ defs[n].operation = operations[x].type
         /\ defs[n].variableDefinitions = operations[x].variableDefinitions
         /\ \A i \in 1..(n - 1) : defs[i].kind = "FragmentDefinition"

\* a document of an operation with declared variables, or with fragments
C10_Witness ==
  \E x \in Operations :
    /\ cache[x].present
    /\ \/ Len(operations[x].variableDefinitions) = 2
       \/ Len(cache[x].value.definitions) = 3

\* C11: a document of a Fragment Definition holds only fragment-definition
\* nodes: one per fragment name its body reaches through spreads, and among
\* them the definition of the fragment itself
C11_FragmentDocumentContents ==
  \A f \in Fragments :
    cache[f].present =>
      LET defs == cache[f].value.definitions
      IN /\ \A i \in 1..Len(defs) : defs[i].kind = "FragmentDefinition"
         /\ {defs[i].name.value : i \in 1..Len(defs)} =
              LET names == FirstCollectedAll(RootSelections(f),
                                             [visited |-> {}, names |-> <<>>]).names
              IN {names[i] : i \in 1..Len(names)}
         /\ \E i \in 1..Len(defs) :
              /\ defs[i].name.value = fragments[f].name
              /\ defs[i].typeCondition.name.value = fragments[f].typeCondition
              /\ defs[i].selectionSet = SelectionSetOf(FragmentSelection(f))

\* C12: a document() build over fragments whose spreads form a cycle, also
\* one that goes through a rebinding of a parameterized fragment, ends
\* without exhausting the call stack
C12_CyclicBuildTerminates ==
  \A x \in Instances : ret[x].called => ret[x].error # "RangeError"

\* the keys of the variables mapping of an instance
DeclaredNames(f) == {f.variables[i].name : i \in 1..Len(f.variables)}

\* C13: the registration of a parameterized instance under a name another
\* parameterized instance holds succeeds if and only if the two have the
\* same set of declared variable names
C13_SameDeclaredNamesRegister ==
  \A x \in Instances :
    ret[x].called =>
      \A i \in 1..Len(ret[x].clashes) :
        LET c == ret[x].clashes[i]
            raised == /\ ret[x].threw /\ i = Len(ret[x].clashes)
                      /\ ret[x].error \in {"FragmentVariablesConflict", "FragmentConflict"}
        IN (c.existing.parameterized /\ c.incoming.parameterized)
             => (~raised <=> DeclaredNames(c.existing) = DeclaredNames(c.incoming))

\* whether the builder callback given to the factory call x has been called
Invoked(x) == IF x \in DOMAIN operations THEN operations[x].invoked ELSE fragments[x].invoked

RECURSIVE BodySpreads(_)
\* the factory calls whose instances the builder callback b spreads
BodySpreads(b) ==
  UNION {LET call == Body(b)[i]
         IN CASE call.c = "__fragment" -> {call.fragment}
              [] call.c = "__on" -> BodySpreads(call.builder)
              [] call.c = "field" ->
                   UNION {IF a.t = "function" THEN BodySpreads(a.builder) ELSE {}
                          : a \in {call.arg1, call.arg2, call.arg3}}
         : i \in 1..Len(Body(b))}

RECURSIVE SpreadClosure(_)
SpreadClosure(set) ==
  LET next == set \cup UNION {BodySpreads(fragments[f].builder) : f \in set}
  IN IF next = set THEN set ELSE SpreadClosure(next)

\* the fragments a build of y can reach
Reaches(y) ==
  IF y \in Fragments THEN SpreadClosure({y})
  ELSE SpreadClosure(BodySpreads(operations[y].builder))

\* C14 as stated: no factory call invokes the builder it is given, and the
\* first invocation of a builder happens in a document() call on the object
\* the factory returned for it
C14_FirstInvokedByOwnDocument ==
  /\ \A x \in Instances : Invoked(x) => ret[x].called
  /\ [][\A x \in Instances :
          (~Invoked(x) /\ Invoked(x)') => (ret'[x].called /\ ~ret'[x].hit)]_vars

\* C14, amended: no factory call invokes the builder it is given; the first
\* invocation of a builder happens in a document() call that misses the
\* cache, made on the object the factory returned for it or on an object
\* whose selections reach that object through fragment spreads
C14_FirstInvokedByDocument ==
  /\ \A x \in Instances : Invoked(x) => \E y \in Instances : ret[y].called
  /\ [][\A x \in Instances :
          (~Invoked(x) /\ Invoked(x)') =>
            \E y \in Instances :
              /\ ret'[y].called /\ ~ret'[y].hit /\ ret'[y] # ret[y]
              /\ x = y \/ x \in Reaches(y)]_vars

\* the builder of a fragment has run, in the build of an operation, before
\* any document() call on the fragment
C14_Witness ==
  \E f \in Fragments, o \in Operations :
    /\ fragments[f].invoked /\ ~ret[f].called /\ ~cache[f].present
    /\ cache[o].present /\ f \in Reaches(o)

RECURSIVE PrintType(_)
\* the type string a type-reference node stands for
PrintType(node) ==
  CASE node.kind = "NamedType" -> <<node.name.value>>
    [] node.kind = "ListType" -> <<"[">> \o PrintType(node.type) \o <<"]">>
    [] node.kind = "NonNullType" -> PrintType(node.type) \o <<"!">>

RECURSIVE MarkersSerialised(_, _)
\* wherever the value holds the marker of a variable, the node is a
\* variable reference to that variable
MarkersSerialised(value, node) ==
  CASE value.t = "variable" ->
         node.kind = "Variable" /\ node.name = NameNode(value.name)
    [] value.t = "array" ->
         /\ node.kind = "ListValue" /\ Len(node.values) = Len(value.items)
         /\ \A i \in 1..Len(value.items) : MarkersSerialised(value.items[i], node.values[i])
    [] value.t = "object" ->
         /\ node.kind = "ObjectValue" /\ Len(node.fields) = Len(value.entries)
         /\ \A i \in 1..Len(value.entries) :
              MarkersSerialised(value.entries[i].value, node.fields[i].value)
    [] OTHER -> node.kind # "Variable"

\* C15: the operation definition has one variable definition per declared
\* variable, in the order of the declaration, of the declared type; the
\* second parameter of the builder holds a marker per declared name; and a
\* marker in a field argument is written as a reference to that variable
C15_DeclaredVariables ==
  \A x \in Operations :
    cache[x].present =>
      LET decls == OperationCalls(scenario)[x].decls
          defs == cache[x].value.definitions
          op == defs[Len(defs)]
          calls == Body(operations[x].builder)
      IN /\ Len(op.variableDefinitions) = Len(decls)
         /\ \A i \in 1..Len(decls) :
              /\ op.variableDefinitions[i].kind = "VariableDefinition"
              /\ op.variableDefinitions[i].variable.name.value = decls[i].name
              /\ PrintType(op.variableDefinitions[i].type) = decls[i].value
              /\ Lookup(operations[x].variables, decls[i].name) = Marker(decls[i].name)
         /\ \A i \in 1..Len(calls) :
              (calls[i].c = "field" /\ calls[i].arg1.t = "object") =>
                LET args == Evaluate(calls[i].arg1, [j \in 1..Len(decls) |->
                                                       Entry(decls[j].name, decls[j].name)])
                    nodes == op.selectionSet.selections[i + 1].arguments
                IN /\ Len(nodes) = Len(args.entries)
                   /\ \A j \in 1..Len(nodes) :
                        /\ nodes[j].name.value = args.entries[j].name
                        /\ MarkersSerialised(args.entries[j].value, nodes[j].value)

\* a document of an operation that declares two variables and passes both
\* to a field, one of them inside a list
C15_Witness ==
  \E x \in Operations :
    /\ cache[x].present /\ operations[x].builder = "nodeVar"
    /\ Len(OperationCalls(scenario)[x].decls) = 2

\* C16: a build, with all the setVariables calls it makes, leaves the name,
\* the type condition, the variable mapping and the builder of every
\* instance as they were, and the Document Cache of every instance other
\* than the one document() was called on
C16_RebindLeavesOriginal ==
  [][\A f \in Fragments :
       /\ fragments'[f].name = fragments[f].name
       /\ fragments'[f].typeCondition = fragments[f].typeCondition
       /\ fragments'[f].parameterized = fragments[f].parameterized
       /\ fragments'[f].variables = fragments[f].variables
       /\ fragments'[f].builder = fragments[f].builder
       /\ (ret'[f] = ret[f] /\ cacheKeyFn'[f] = cacheKeyFn[f]) => cache'[f] = cache[f]]_vars

\* an operation was built that spreads a parameterized fragment with a
\* mapping other than the fragment's own
C16_Witness ==
  /\ scenario = "rebind"
  /\ \E o \in Operations : cache[o].present /\ Len(cache[o].value.definitions) = 2
  /\ fragments["f1"].invoked /\ fragments["f1"].variables = <<Entry("a", "a")>>

RECURSIVE UnsupportedIn(_)
\* the values inside value that the serializer cannot represent
UnsupportedIn(value) ==
  CASE value.t \in {"null", "string", "number", "boolean", "variable", "enum"} -> {}
    [] value.t = "array" -> UNION {UnsupportedIn(value.items[i]) : i \in 1..Len(value.items)}
    [] value.t = "object" ->
         UNION {UnsupportedIn(value.entries[i].value) : i \in 1..Len(value.entries)}
    [] OTHER -> {value}

RECURSIVE UnsupportedInBody(_, _)
\* the unsupported values among the field arguments of the builder callback
\* b and of the callbacks nested in it
UnsupportedInBody(b, v) ==
  UNION {LET call == Body(b)[i]
         IN CASE call.c = "__fragment" -> {}
              [] call.c = "__on" -> UnsupportedInBody(call.builder, v)
              [] call.c = "field" ->
                   (IF call.arg1.t = "object"
                    THEN UNION {UnsupportedIn(Evaluate(call.arg1.entries[j].value, v))
                                : j \in 1..Len(call.arg1.entries)}
                    ELSE {}) \cup
                   UNION {IF a.t = "function" THEN UnsupportedInBody(a.builder, v) ELSE {}
                          : a \in {call.arg1, call.arg2}}
         : i \in 1..Len(Body(b))}

\* C17: a document() call on an operation whose builder passes a value the
\* serializer cannot represent, at any depth of a field argument, throws the
\* unsupported-value error with that value and returns no document; without
\* such a value that error is not thrown
C17_UnsupportedValueThrows ==
  \A x \in Operations :
    ret[x].called =>
      LET bad == UnsupportedInBody(operations[x].builder, operations[x].variables)
      IN IF bad # {}
         THEN /\ ret[x].threw /\ ret[x].error = "UnsupportedValue"
              /\ ret[x].thrown.value \in bad
              /\ ~cache[x].present
         ELSE ret[x].error # "UnsupportedValue"

\* the build threw for a function inside an object inside a list, passed by
\* a builder nested in a field and an inline fragment
C17_Witness ==
  \E x \in Operations :
    /\ operations[x].builder = "badFunction"
    /\ ret[x].threw /\ ret[x].thrown = Unsupported(Fn("name"))

\* C18: a factory call with a declared variable type string that cannot be
\* parsed throws: it gives no Operation, and no Fragment Definition that
\* yields a document
C18_MalformedTypeThrows ==
  /\ \A o \in DOMAIN operations :
       (\E i \in 1..Len(OperationCalls(scenario)[o].decls) :
          IsThrow(parseType(OperationCalls(scenario)[o].decls[i].value)))
         => IsThrow(operations[o])
  /\ \A f \in Fragments :
       LET arg3 == FragmentCalls(scenario)[f].arg3
       IN (/\ arg3.t = "object"
           /\ \E i \in 1..Len(arg3.entries) : IsThrow(parseType(arg3.entries[i].value)))
            => ~IsDocument(ret[f])

\* the arrays have the same length and are pairwise ===
KeysEqual(a, b) ==
  /\ Len(a) = Len(b)
  /\ \A i \in 1..Len(a) : StrictEquals(a[i], b[i])

\* C19: in keyed-dynamic mode a document() call on an instance that holds a
\* document returns the stored document if and only if the key it computes
\* is not empty and has the length and, pairwise by ===, the elements of the
\* stored key
C19_HitIffKeysEqual ==
  [][\A x \in Instances :
       (/\ cacheKeyFn[x] = "caller" /\ cache[x].present
        /\ ret'[x].called /\ ~ret'[x].threw /\ ret'[x] # ret[x])
         => (ret'[x].hit <=>
               /\ Len(ret'[x].cacheKey.values) > 0
               /\ KeysEqual(ret'[x].cacheKey.values, cache[x].cacheKey.values))]_vars

\* C20: a document() call that builds calls the builder callback of the
\* instance exactly once
C20_BuilderInvokedOnce ==
  \A x \in Instances :
    (ret[x].called /\ ~ret[x].hit /\ ~ret[x].threw) => ret[x].invocations = 1

RECURSIVE CallsResolved(_, _)
\* the node has the arguments and the selection set the call's arguments ask
\* for: a keyed first argument gives the arguments, in order, and leaves the
\* builder to the second argument; a callable first argument is the builder
CallResolved(call, node) ==
  CASE call.c = "__fragment" -> node.kind = "FragmentSpread"
    [] call.c = "__on" ->
         node.kind = "InlineFragment" /\ CallsResolved(Body(call.builder), node.selectionSet)
    [] call.c = "field" ->
         LET keyed == call.arg1.t = "object"
             nested == IF keyed THEN call.arg2 ELSE call.arg1
         IN /\ node.kind = "Field" /\ node.name.value = call.prop
            /\ IF keyed
               THEN /\ Len(node.arguments) = Len(call.arg1.entries)
                    /\ \A j \in 1..Len(node.arguments) :
                         /\ node.arguments[j].kind = "Argument"
                         /\ node.arguments[j].name.value = call.arg1.entries[j].name
               ELSE node.arguments = <<>>
            /\ ("selectionSet" \in DOMAIN node) <=> (nested.t = "function")
            /\ nested.t = "function" =>
                 CallsResolved(Body(nested.builder), node.selectionSet)

\* the selection set holds, after __typename, one node per entry of the
\* array the builder returns: the builder ran once
CallsResolved(calls, set) ==
  /\ Len(set.selections) = Len(calls) + 1
  /\ \A i \in 1..Len(calls) : CallResolved(calls[i], set.selections[i + 1])

\* C21: in a produced document every field call of the operation's builder,
\* and of the builders nested in it, has as arguments the entries of a keyed
\* first argument, in insertion order, and none otherwise; it has a
\* selection set exactly when a builder was supplied (as the first argument,
\* or as the second after a keyed first), and that selection set is the one
\* a single invocation of the builder gives
C21_FieldArgumentsResolved ==
  \A x \in Operations :
    cache[x].present =>
      LET defs == cache[x].value.definitions
      IN CallsResolved(Body(operations[x].builder), defs[Len(defs)].selectionSet)

\* a document with fields called as (args, builder, alias), (builder, alias),
\* (args, alias), (args, builder) and, nested, with no arguments
C21_Witness ==
  \E x \in Operations : cache[x].present /\ operations[x].builder = "aliases"

\* variables is equivalent to the instance's own mapping: the same keys,
\* each bound to a variable reference of the name the instance binds it to
EquivalentVariables(this, variables) ==
  /\ {variables[i].name : i \in 1..Len(variables)} = DeclaredNames(this)
  /\ \A i \in 1..Len(this.variables) :
       EntryValue(variables, this.variables[i].name).name = this.variables[i].value

\* C22: every setVariables(vars) call of a build returns the instance it was
\* called on exactly when vars is equivalent to that instance's own variable
\* mapping, and otherwise a new instance with the same name, type condition
\* and body whose variable mapping is vars
C22_SameInstanceIffEquivalent ==
  \A x \in Instances :
    \A i \in 1..Len(ret[x].rebinds) :
      LET c == ret[x].rebinds[i]
      IN IF EquivalentVariables(c.on, c.variables)
         THEN c.returned = c.on
         ELSE /\ Identity(c.returned) # Identity(c.on)
              /\ c.returned.name = c.on.name
              /\ c.returned.typeCondition = c.on.typeCondition
              /\ c.returned.builder = c.on.builder
              /\ c.returned.variables =
                   [j \in 1..Len(c.variables) |->
                      Entry(c.variables[j].name, c.variables[j].value.name)]

\* C23: a document() call whose build throws returns no document and leaves
\* every Document Cache as it was; the call was not answered by the cache
\* and ran the instance's builder, so a call on an empty cache builds again
\* each time, and a document cached before stays cached
C23_FailedBuildLeavesCache ==
  /\ [](\A x \in Instances :
          ret[x].threw =>
            ~IsDocument(ret[x]) /\ ret[x].ref = 0 /\ ~ret[x].hit /\ ret[x].invocations > 0)
  /\ [][\A x \in Instances :
          (ret'[x].threw /\ ret'[x] # ret[x]) => cache' = cache]_vars

\* a build threw on an instance that holds a document cached by an earlier
\* call, and the document is still cached
C23_Witness ==
  \E x \in Instances : ret[x].threw /\ cache[x].present /\ cache[x].value.ref = 1

\* C24: of two document() calls on the same instance with no dynamic() or
\* static() call on it between them, the second, when it builds, throws
\* exactly when the first did, with the same error, and otherwise yields a
\* document with the same definitions, whatever document() calls were made
\* on other instances in between
C24_BuildIndependentOfEarlierCalls ==
  [][\A x \in Instances :
       (ret[x].called /\ ret'[x].called /\ ~ret'[x].hit /\ ret'[x] # ret[x])
         => /\ ret'[x].threw = ret[x].threw
            /\ ret'[x].error = ret[x].error
            /\ ~ret'[x].threw =>
                 cache'[x].value.definitions = cache[x].value.definitions]_vars

\* C25: a document() call on an instance leaves the Document Cache of every
\* other instance, and the cache mode of every instance, as they were
C25_DocumentChangesOwnCacheOnly ==
  [][\A x \in Instances :
       (ret'[x].called /\ ret'[x] # ret[x])
         => /\ \A y \in Instances \ {x} : cache'[y] = cache[y]
            /\ cacheKeyFn' = cacheKeyFn]_vars

\* an operation holds a document with the definitions of the two fragments
\* it spreads, their builders have run, and their caches are empty
C25_Witness ==
  \E o \in Operations :
    /\ cache[o].present /\ Len(cache[o].value.definitions) = 3
    /\ \A f \in Fragments : fragments[f].invoked /\ ~cache[f].present /\ ~ret[f].called

\* C26: after dynamic(() => [x]), when the caller has kept the document of a
\* call under x = a and the cache holds the document of a later call under
\* x = b, with b not === a, a document() call under x = a is not answered by
\* the cache and returns a reference different from the kept one
C26_OnlyMostRecentPair ==
  [][\A x \in Instances :
       (/\ cacheKeyFn[x] = "caller"
        /\ held[x].ref # 0 /\ Len(held[x].cacheKey.values) = 1
        /\ cache[x].present /\ Len(cache[x].cacheKey.values) = 1
        /\ ~StrictEquals(cache[x].cacheKey.values[1], held[x].cacheKey.values[1])
        /\ IsDocument(ret'[x]) /\ ret'[x] # ret[x]
        /\ ret'[x].cacheKey = held[x].cacheKey)
         => ~ret'[x].hit /\ ret'[x].ref # held[x].ref]_vars

\* the caller kept the document of x = objA, got another under x = objB, and
\* a third, rebuilt, under x = objA again
C26_Witness ==
  \E x \in Instances :
    /\ cacheKeyFn[x] = "caller"
    /\ held[x].ref = 1 /\ held[x].cacheKey = KeyOf(<<"objA">>)
    /\ IsDocument(ret[x]) /\ ~ret[x].hit /\ ret[x].ref = 3
    /\ ret[x].cacheKey = KeyOf(<<"objA">>)

\* C27: after a dynamic() or static() call on an instance, whatever its
\* mode was before, the instance holds no document, and the first
\* document() call after it is not answered by the cache and returns a
\* reference different from that of a document the caller kept from before
C27_ModeCallDiscardsDocument ==
  /\ [](\A x \in Instances : ~ret[x].called => ~cache[x].present)
  /\ [][\A x \in Instances :
          (~ret[x].called /\ ret'[x].called)
            => /\ ~ret'[x].hit
               /\ (IsDocument(ret'[x]) /\ held[x].ref # 0) => ret'[x].ref # held[x].ref]_vars

\* an instance in static mode has, after the document the caller kept from
\* a call in static mode, built a second one
C27_Witness ==
  \E x \in Instances :
    /\ cacheKeyFn[x] = "undefined"
    /\ held[x].ref = 1 /\ held[x].cacheKey = NoKey
    /\ IsDocument(ret[x]) /\ ~ret[x].hit /\ ret[x].ref = 2

\* C28: in keyed-dynamic mode the key stored with a rebuilt document is the
\* array the key function returns after the build has finished, not the one
\* computed for the lookup; so when the build itself changes what the key
\* function returns, the next document() call is answered by the cache
\* exactly when its key equals the post-build value.
C28_HitIffPostBuildKey ==
  [][\A o \in Operations :
       (cacheKeyFn[o] = "caller" /\ ret'[o].called /\ ret'[o] # ret[o])
         => /\ (IsDocument(ret'[o]) /\ ~ret'[o].hit) => cache'[o].cacheKey = KeyOf(key')
            /\ (ChangesKey(o) /\ cache[o].present)
                 => (ret'[o].hit <=> ret'[o].cacheKey = cache[o].cacheKey)]_vars

\* the first and the last of the accepted instances that have the name n
FirstAccepted(accepted, n) ==
  CHOOSE i \in 1..Len(accepted) :
    accepted[i].name = n /\ \A j \in 1..(i - 1) : accepted[j].name # n
LastAccepted(accepted, n) ==
  CHOOSE i \in 1..Len(accepted) :
    accepted[i].name = n /\ \A j \in (i + 1)..Len(accepted) : accepted[j].name # n

\* C29: when two distinct fragment instances with the same name are both
\* accepted by the registry in one build, the document has a single
\* definition for that name, at the position where the first of them was
\* registered, generated from the one that was registered last
C29_FirstPositionLastInstance ==
  [][\A x \in Instances :
       (IsDocument(ret'[x]) /\ ~ret'[x].hit /\ ret'[x] # ret[x])
         => LET accepted == ret'[x].accepted
                defs == cache'[x].value.definitions
            IN \A i, j \in 1..Len(accepted) :
                 (/\ i < j
                  /\ accepted[i].name = accepted[j].name
                  /\ Identity(accepted[i]) # Identity(accepted[j]))
                   => LET n == accepted[i].name
                          first == FirstAccepted(accepted, n)
                          last == LastAccepted(accepted, n)
                          position == Cardinality({accepted[k].name : k \in 1..(first - 1)}) + 1
                      IN /\ Cardinality(DefinitionsNamed(defs, n)) = 1
                         /\ defs[position] = FragmentDefinitionNode(accepted[last])]_vars

\* a document of an operation that spread a parameterized fragment under two
\* mappings with a plain fragment between them: the instances differ in
\* what they generate, and the later one is not the first name registered
C29_Witness ==
  \E x \in Operations :
    /\ IsDocument(ret[x]) /\ ~ret[x].hit /\ cache[x].present
    /\ cache[x].value.ref = ret[x].ref
    /\ Len(ret[x].accepted) = 3
    /\ ret[x].accepted[1].name = ret[x].accepted[3].name
    /\ ret[x].accepted[2].name # ret[x].accepted[1].name
    /\ Identity(ret[x].accepted[1]) # Identity(ret[x].accepted[3])
    /\ FragmentDefinitionNode(ret[x].accepted[1]) # FragmentDefinitionNode(ret[x].accepted[3])
    /\ Len(cache[x].value.definitions) = 3
    /\ cache[x].value.definitions[1] = FragmentDefinitionNode(ret[x].accepted[3])

\* C30: when a plain and a parameterized fragment definition with the same
\* name are both reached in one document() build, the build raises a
\* Fragment Conflict error, whichever of them is registered first and
\* whatever their bodies are
C30_PlainAndParameterizedConflict ==
  \A x \in Instances :
    ret[x].called =>
      \A i \in 1..Len(ret[x].clashes) :
        LET c == ret[x].clashes[i]
        IN (c.existing.name = c.incoming.name
            /\ c.existing.parameterized # c.incoming.parameterized)
             => /\ ret[x].threw
                /\ ret[x].error = "FragmentConflict"
                /\ i = Len(ret[x].clashes)

\* a build that registered the parameterized fragment first and then reached
\* a plain one with the same name, type condition and callback
C30_Witness ==
  \E x \in Instances :
    /\ ret[x].called /\ ret[x].threw /\ ret[x].error = "FragmentConflict"
    /\ Len(ret[x].clashes) = 1
    /\ ret[x].clashes[1].existing.parameterized
    /\ ~ret[x].clashes[1].incoming.parameterized
    /\ ret[x].clashes[1].existing.name = ret[x].clashes[1].incoming.name
    /\ ret[x].clashes[1].existing.typeCondition = ret[x].clashes[1].incoming.typeCondition
    /\ ret[x].clashes[1].existing.builder = ret[x].clashes[1].incoming.builder

====
